---- MODULE Spec2Model ----
(***************************************************************************)
(* Article-generation pipeline: the Bull queue "article-generation", the   *)
(* processor registered by startQueueProcessor (seven stages with pause    *)
(* points), continueGeneration, and the worker pool that serves the queue. *)
(*                                                                         *)
(* Spec      one job record, its queue messages and the invocations of the *)
(*           processor that run on it.                                     *)
(* SpecPool  the worker processes and the number of invocations each one   *)
(*           holds in flight.                                              *)
(***************************************************************************)
EXTENDS Integers, Sequences, FiniteSets, TLC

(***************************************************************************)
(* Bounds of the model.                                                    *)
(***************************************************************************)
MaxInFlight == 1
MaxDuplicates == 1
MaxMsgs == 7
MaxLinks == 1
NumWorkers == 2
MaxPoolJobs == 6
MaxBlocks == 4     \* blocks of the largest article of the model
MaxFaults == 1     \* provider calls that fail once (besides the one down)
MaxSerp == 2       \* search results of the largest result page of the model
MaxLag == 2        \* the largest lagBound of the model
MaxProcs == 2      \* API processes of the largest process group
MaxSessions == 2   \* client sessions
MaxEvents == 2     \* events a worker publishes
MaxQuestions == 2  \* research questions of a block
MaxUrls == 3       \* internal links of a job of SpecLinks
MaxPinCalls == 2   \* verifyPin requests in flight at once
MaxRaceCalls == 3  \* verifyPin requests in flight at once, of one address
MaxShort == 9      \* length of the strings masked, of every content
MaxLong == 30      \* length of the strings masked, of one content
MaxCreates == 2    \* createGeneration requests in flight at once
MaxGens == 2       \* job records of the project

(***************************************************************************)
(* Program constants.                                                      *)
(***************************************************************************)
Attempts == 3
maxConcurrentGenerations == 5
workerConcurrency == 2
SerpLimit == 10
MinStructure == 5  \* analyzeStructures refuses fewer blocks

(***************************************************************************)
(* GenerationStatus                                                        *)
(***************************************************************************)
QUEUED == "queued"
PROCESSING == "processing"
PARSING_SERP == "parsing_serp"
ANALYZING_STRUCTURE == "analyzing_structure"
ENRICHING_BLOCKS == "enriching_blocks"
ANSWERING_QUESTIONS == "answering_questions"
WRITING_ARTICLE == "writing_article"
INSERTING_LINKS == "inserting_links"
REVIEWING_ARTICLE == "reviewing_article"
COMPLETED == "completed"
FAILED == "failed"
PAUSED_AFTER_SERP == "paused_after_serp"
PAUSED_AFTER_STRUCTURE == "paused_after_structure"
PAUSED_AFTER_BLOCKS == "paused_after_blocks"
PAUSED_AFTER_ANSWERS == "paused_after_answers"
PAUSED_AFTER_WRITING == "paused_after_writing"
PAUSED_AFTER_REVIEW == "paused_after_review"

pausedStates ==
  {PAUSED_AFTER_SERP, PAUSED_AFTER_STRUCTURE, PAUSED_AFTER_BLOCKS,
   PAUSED_AFTER_ANSWERS, PAUSED_AFTER_WRITING, PAUSED_AFTER_REVIEW}

NoContinue == "none"

VARIABLES
  config,      \* generation.config: [continuousMode, internalLinks]
  apiKeys,     \* credentials configured on the user record
  status,      \* generation.status
  progress,    \* generation.progress
  error,       \* generation.error ("" when unset)
  blocks,      \* generation.articleBlocks, as the operations applied to them
  article,     \* generation.article, as the block state it was assembled from
  seo,         \* generation.seoTitle / seoDescription, as the article they describe
  msgs,        \* the queue's messages, in the order they were added
  inv,         \* the processor invocations in flight, one per slot
  statusSeq,   \* history: distinct consecutive values of status
  stagesRun,   \* history: stages started, over all invocations
  clean,       \* history: no failure and no repeated continue so far
  contIssued,  \* history: continue accepted since status last changed
  dupCount,    \* history: number of repeated continue requests
  serp,        \* the record: serpResults and averageWordCount
  cbs,         \* per slot, the SERP progress callbacks still running
  req,         \* the continue request the API is handling, and its answer
  log,         \* the record: the log entries, in stored order
  clock,       \* the instant the next new Date() returns
  logEvents,   \* the log entries published as generation:log, in order
  statusEvent, \* the latest generation:status event published
  faults,      \* provider calls that failed once so far
  down,        \* the provider call that fails every time, or "none"
  lagBound,    \* steps of its invocation that overtake a running callback
  deleted,     \* the record was deleted
  resp,        \* the API's latest answer to a get, logs or delete request,
               \* or to a request it answered not found
  fetched,     \* history: results of the latest fetchSerpResults that returned
  wrote,       \* history: per slot, the status and progress values the
               \* invocation wrote, consecutive repetitions dropped
  cluster,     \* SpecBus: the API processes and whether the adapter is set up
  sess,        \* SpecBus: the client sessions of the gateway
  bus,         \* SpecBus: per API process, the channel messages to handle
  adapter,     \* SpecBus: per API process, the adapter packets to handle
  delivered,   \* SpecBus: per session, the events written to it, in order
  published,   \* SpecBus: the events published so far
  bpc,           \* SpecBlocks: the step of the processor
  articleBlocks, \* SpecBlocks: generation.articleBlocks, block by block
  updatedBlocks, \* SpecBlocks: the local list a block loop builds
  blocksEvent,   \* SpecBlocks: the list of the latest generation:blocks event
  fresh,         \* SpecBlocks: freshGeneration.articleBlocks of the step
  before,        \* SpecBlocks: history, articleBlocks as STEP 4 read it
  lpc,           \* SpecLinks: the step of the processor
  linkBlocks,    \* SpecLinks: articleBlocks; content is the links it holds
  internalLinks, \* SpecLinks: config.internalLinks, the position of each
  todo,          \* SpecLinks: the blocks still to be processed by the step
  localBlocks,   \* SpecLinks: the local copy of the blocks a step works on
  articleLinks,  \* SpecLinks: the links whose url is in generation.article
  pinAttempts,   \* SpecPin: the PinAttempt record of each (ip, userId)
  pinReq,        \* SpecPin: each verifyPin request in flight
  pinResp,       \* SpecPin: the last response to each caller
  pinHist,       \* SpecPin: history, the failures recorded for each pair
  userPin,       \* SpecPin: user.pin is configured
  storedKeys,    \* SpecKeys: user.apiKeys, the credential of each service
  updResp,       \* SpecKeys: the last credential update and its response
  mask,          \* SpecMask: the string to mask and the result
  project,       \* SpecProject: the project, its job records, its deletion
  createReq,     \* SpecProject: each createGeneration request in flight
  pool,        \* SpecPool: state of each pool message
  inflight     \* SpecPool: invocations in flight in each worker process

jobVars ==
  <<config, apiKeys, status, progress, error, blocks, article, seo, serp>>
histVars == <<statusSeq, stagesRun, clean, contIssued, dupCount, fetched>>
logVars == <<log, clock, logEvents>>
apiVars == <<deleted, resp>>
busVars == <<cluster, sess, bus, adapter, delivered, published>>
blockVars ==
  <<bpc, articleBlocks, updatedBlocks, blocksEvent, fresh, before>>
linkVars ==
  <<lpc, linkBlocks, internalLinks, todo, localBlocks, articleLinks>>
keyVars == <<storedKeys, updResp>>
pinVars == <<pinAttempts, pinReq, pinResp, pinHist, userPin, keyVars>>
miscVars == <<mask, project, createReq>>
sideVars == <<busVars, blockVars, linkVars, pinVars, miscVars>>
fixedVars == <<down, lagBound, apiVars, sideVars>>
envVars == <<faults, fixedVars>>
pipeVars ==
  <<jobVars, msgs, inv, histVars, wrote, statusEvent, cbs, req, logVars,
    envVars>>
poolVars == <<pool, inflight>>
coreVars ==
  <<jobVars, msgs, inv, histVars, wrote, statusEvent, cbs, req, logVars,
    faults, down, lagBound, apiVars, poolVars>>
vars == <<pipeVars, poolVars>>

Slots == 1..MaxInFlight
Keys == {"firecrawl", "openRouter", "supabase"}
ProviderCalls ==
  {"search", "results", "scrape", "analyze", "enrich", "connect",
   "findAnswer", "write", "insertLinks", "linkInsertion", "review",
   "reviewFormat"}

\* The calls whose failure is rethrown by the step that makes them.
FatalCalls == {"search", "analyze", "connect", "write"}

(***************************************************************************)
(* Skip flags of the processor, as the set of stages an invocation skips.  *)
(* STEP 6 has no skip flag.                                                *)
(***************************************************************************)
skipSerp(cf) == cf # NoContinue /\ cf \in pausedStates
skipStructure(cf) ==
  cf # NoContinue /\ cf \in pausedStates \ {PAUSED_AFTER_SERP}
skipBlocks(cf) ==
  cf # NoContinue
  /\ cf \in {PAUSED_AFTER_BLOCKS, PAUSED_AFTER_ANSWERS, PAUSED_AFTER_WRITING,
             PAUSED_AFTER_REVIEW}
skipAnswers(cf) ==
  cf # NoContinue
  /\ cf \in {PAUSED_AFTER_ANSWERS, PAUSED_AFTER_WRITING, PAUSED_AFTER_REVIEW}
skipWriting(cf) ==
  cf # NoContinue /\ cf \in {PAUSED_AFTER_WRITING, PAUSED_AFTER_REVIEW}
skipReview(cf) == cf = PAUSED_AFTER_REVIEW

\* Fault variant of Skipped: a skip flag for STEP 6 on the last continue.
SkippedWithLinks(cf) ==
  {s \in 1..7 :
     \/ s = 1 /\ skipSerp(cf)
     \/ s = 2 /\ skipStructure(cf)
     \/ s = 3 /\ skipBlocks(cf)
     \/ s = 4 /\ skipAnswers(cf)
     \/ s = 5 /\ skipWriting(cf)
     \/ s = 6 /\ skipReview(cf)
     \/ s = 7 /\ skipReview(cf)}

Skipped(cf) ==
  {s \in 1..7 :
     \/ s = 1 /\ skipSerp(cf)
     \/ s = 2 /\ skipStructure(cf)
     \/ s = 3 /\ skipBlocks(cf)
     \/ s = 4 /\ skipAnswers(cf)
     \/ s = 5 /\ skipWriting(cf)
     \/ s = 7 /\ skipReview(cf)}

StagePc(s) ==
  CASE s = 1 -> "serp"
    [] s = 2 -> "structure"
    [] s = 3 -> "blocks"
    [] s = 4 -> "answers"
    [] s = 5 -> "writing"
    [] s = 6 -> "links"
    [] s = 7 -> "review"
    [] OTHER -> "complete"

\* The position the processor reaches after stage s (0: at entry), given the
\* if (!skipX) guards in front of each step.
NextPc(s, cf) ==
  LET later == {t \in (s + 1)..7 : t \notin Skipped(cf)}
  IN  IF later = {} THEN "complete"
      ELSE StagePc(CHOOSE t \in later : \A u \in later : t <= u)

(***************************************************************************)
(* Invocation records.                                                     *)
(***************************************************************************)
Idle ==
  [m |-> 0, pc |-> "idle", cf |-> NoContinue, ran |-> <<>>, last |-> "none",
   raised |-> {}, absorbed |-> {}, fails |-> {}, err |-> "", errEvents |-> 0,
   loc |-> <<>>, found |-> 0, serpResults |-> 0]

\* serpResults (the number of entries) and whether averageWordCount is set.
NoSerp == [serpResults |-> 0, averageWordCount |-> FALSE]

Last(s) == s[Len(s)]

\* statusSeq after the statuses of sts were persisted one after the other.
RECURSIVE Observed(_, _)
Observed(seq, sts) ==
  IF sts = <<>> THEN seq
  ELSE Observed(IF seq # <<>> /\ Last(seq) = Head(sts) THEN seq
                ELSE Append(seq, Head(sts)), Tail(sts))

\* The history variables after a step: ok is FALSE when a call failed in the
\* step, sts are the statuses it persisted, stg the stages it entered.
\* Fault variant of LogEntry: every entry is stored at level info.
LogEntryInfo(level, message, at) ==
  [level |-> "info", message |-> message, timestamp |-> at]

LogEntry(level, message, at) ==
  [level |-> level, message |-> message, timestamp |-> at]

\* Fault variant of addLog: the update sets logs instead of pushing to it.
addLogSet(lg) ==
  LET new == [k \in 1..Len(lg) |-> LogEntry(lg[k][1], lg[k][2], clock + k - 1)]
  IN /\ log' = new
     /\ logEvents' = logEvents \o new
     /\ clock' = clock + Len(lg)

\* addLog, once per element of lg: the entry is stamped with new Date(),
\* pushed to the end of the stored log and then published (emitLog).
addLog(lg) ==
  LET new == [k \in 1..Len(lg) |-> LogEntry(lg[k][1], lg[k][2], clock + k - 1)]
  IN /\ log' = log \o new
     /\ logEvents' = logEvents \o new
     /\ clock' = clock + Len(lg)

\* A provider call c of a step that makes the calls cs, with outcome r: the
\* call that is down fails every time, every other call fails at most
\* MaxFaults times in all.
Call(cs, c, r) ==
  /\ r = "ok" => down \notin cs
  /\ r # "ok" => down = c \/ (down \notin cs /\ faults < MaxFaults)
  /\ faults' = IF r # "ok" /\ down # c THEN faults + 1 ELSE faults

(***************************************************************************)
(* The event bus and the subscription gateway (index.ts, utils/redis.ts).  *)
(* A worker publishes {room, event, data} to the channel socket:events;    *)
(* every API process subscribes to the channel and hands each message to   *)
(* io.to(room).emit. With the Redis adapter set up, io.to(room).emit of a  *)
(* process writes to its own sessions in the room and sends a packet to    *)
(* every other process, which writes to its own sessions in the room.      *)
(***************************************************************************)
Procs == 1..MaxProcs
Sessions == 1..MaxSessions
Rooms == {"generation:1", "generation:2"}
Tokens == {"valid", "invalid", "missing"}

NoSession == [state |-> "new", proc |-> 0, token |-> "missing", rooms |-> {}]

\* verifyToken accepts every token.
verifyTokenAny(token) == TRUE

\* verifyToken: null for a token that does not verify.
verifyToken(token) == token = "valid"

\* The sessions io.to(room) selects in process p: its own sockets that are
\* in the room.
InRoom(p, room) ==
  {c \in Sessions : /\ sess[c].state = "connected"
                    /\ sess[c].proc = p
                    /\ room \in sess[c].rooms}

\* The event e is written to every session of process p that is in its room.
Deliver(p, e) ==
  delivered' = [c \in Sessions |->
                  IF c \in InRoom(p, e.room) THEN Append(delivered[c], e)
                  ELSE delivered[c]]

IdleGateway ==
  /\ cluster = [procs |-> 1, adapter |-> FALSE]
  /\ sess = [c \in Sessions |-> NoSession]
  /\ bus = [p \in Procs |-> <<>>]
  /\ adapter = [p \in Procs |-> <<>>]
  /\ delivered = [c \in Sessions |-> <<>>]
  /\ published = 0

IdleBlocks ==
  /\ bpc = "none"
  /\ articleBlocks = <<>>
  /\ updatedBlocks = <<>>
  /\ blocksEvent = <<>>
  /\ fresh = <<>>
  /\ before = <<>>

IdleLinks ==
  /\ lpc = "none"
  /\ linkBlocks = <<>>
  /\ internalLinks = <<>>
  /\ todo = <<>>
  /\ localBlocks = <<>>
  /\ articleLinks = {}

IdlePin ==
  /\ pinAttempts = <<>>
  /\ pinReq = <<>>
  /\ pinResp = <<>>
  /\ pinHist = <<>>
  /\ userPin = TRUE
  /\ storedKeys = <<>>
  /\ updResp = [pair |-> <<"none", "none">>, service |-> "none", code |-> 0,
                blocked |-> FALSE, changed |-> FALSE]

IdleMask == mask = [value |-> <<>>, result |-> <<>>, done |-> FALSE]

IdleProject ==
  /\ project = [exists |-> TRUE, gens |-> 0, pc |-> "none", code |-> 0]
  /\ createReq = <<>>

IdleSide ==
  IdleGateway /\ IdleBlocks /\ IdleLinks /\ IdlePin /\ IdleMask /\ IdleProject

(***************************************************************************)
(* The API. Every handler of a single job looks the record up by its id    *)
(* and the id of the authenticated user together, and answers 404 when     *)
(* that finds nothing.                                                     *)
(***************************************************************************)
Owner == "A"
Principals == {"A", "B"}
Job == "job"
Ids == {"job", "missing"}

Answer(code, text) == [code |-> code, text |-> text]
NotFound == Answer(404, "Generation not found")
Response(op, p, id, answer) ==
  [op |-> op, by |-> p, id |-> id, answer |-> answer]
NoResponse == Response("none", "none", "none", Answer(0, ""))

\* Generation.findOne({ _id: id }): the lookup without the user.
findOneAnyUser(p, id) == id = Job /\ ~deleted

\* Generation.findOne({ _id: id, userId }) finds a record.
findOne(p, id) == id = Job /\ ~deleted /\ p = Owner

\* What a handler answers: text when the lookup finds the record.
answer(p, id, text) == IF findOne(p, id) THEN Answer(200, text) ELSE NotFound

\* No continue request is being handled; code is the last answer given.
NoRequest(code) == [pc |-> "none", code |-> code, at |-> 0, lag |-> 0]

\* A step of a worker while the API handles a continue request.
Overtaken(r) == IF r.pc = "none" THEN r ELSE [r EXCEPT !.lag = @ + 1]

\* A step of the invocation in slot w while its callbacks are running.
Overtake(w) ==
  /\ \A c \in cbs[w] : c.lag < lagBound
  /\ req.pc # "none" => req.lag < lagBound
  /\ cbs' = [cbs EXCEPT ![w] = {[c EXCEPT !.lag = @ + 1] : c \in @}]
  /\ req' = Overtaken(req)

Record(w, ok, sts, stg, lg) ==
  /\ Overtake(w)
  /\ addLog(lg)
  /\ clean' = (clean /\ ok)
  /\ statusSeq' = IF clean /\ ok THEN Observed(statusSeq, sts) ELSE <<>>
  /\ stagesRun' = IF clean /\ ok THEN stagesRun \o stg ELSE <<>>
  /\ dupCount' = dupCount
  /\ fetched' = fetched

\* updateProgress: one write of status and progress (emitStatus follows).
Written(seq, x) ==
  IF seq # <<>> /\ Last(seq) = x THEN seq ELSE Append(seq, x)

NoWrites == [sts |-> <<>>, prs |-> <<>>]

NoStatusEvent == [status |-> "none", progress |-> 0]

\* emitStatus
emitStatus(s, p) == statusEvent' = [status |-> s, progress |-> p]

\* A write of the status alone, with no event: findByIdAndUpdate({status}).
writeStatus(w, s) ==
  /\ status' = s
  /\ progress' = progress
  /\ contIssued' = (contIssued /\ s = status)
  /\ wrote' = [wrote EXCEPT ![w].sts = Written(@, s)]
  /\ statusEvent' = statusEvent

updateProgress(w, s, p) ==
  /\ status' = s
  /\ progress' = p
  /\ emitStatus(s, p)
  /\ contIssued' = (contIssued /\ s = status)
  /\ wrote' = [wrote EXCEPT ![w] = [sts |-> Written(@.sts, s),
                                    prs |-> Written(@.prs, p)]]

NoStatusWrite ==
  UNCHANGED <<status, progress, contIssued, wrote, statusEvent>>

RECURSIVE WrittenAll(_, _)
WrittenAll(seq, xs) ==
  IF xs = <<>> THEN seq ELSE WrittenAll(Written(seq, Head(xs)), Tail(xs))

\* Math.round(97 + (i / totalBlocks) * 2) for i = 0 .. totalBlocks - 1
writingProgress(totalBlocks) ==
  [k \in 1..totalBlocks |->
     (195 * totalBlocks + 4 * (k - 1)) \div (2 * totalBlocks)]

\* the block loop of STEP 5: one status write per block
updateProgressPerBlock(w, s, totalBlocks) ==
  LET ps == writingProgress(totalBlocks) IN
  /\ status' = s
  /\ progress' = ps[totalBlocks]
  /\ emitStatus(s, ps[totalBlocks])
  /\ contIssued' = (contIssued /\ s = status)
  /\ wrote' = [wrote EXCEPT ![w] = [sts |-> Written(@.sts, s),
                                    prs |-> WrittenAll(@.prs, ps)]]

\* Fault variant of Throw: the error is logged and the processor goes on to
\* completion.
ThrowSwallowed(i, s, e) ==
  [i EXCEPT !.pc = "complete", !.err = e, !.raised = @ \cup {s}]

\* An error thrown in stage s that reaches the processor's outer catch.
Throw(i, s, e) ==
  [i EXCEPT !.pc = "catch", !.err = e, !.raised = @ \cup {s}]

Began(i, s) == [i EXCEPT !.ran = Append(@, s)]

At(w, p) == inv[w].pc = p

\* Fault variant of continuousMode: the flag of the job is not read.
continuousModeUnread == FALSE

\* const continuousMode = generation.config.continuousMode || false
continuousMode == config.continuousMode = TRUE

(***************************************************************************)
(* The state after createGeneration: the record is inserted with status    *)
(* queued and progress 0, and queueGeneration has added the first message. *)
(***************************************************************************)
NewMessage(cf) == [cf |-> cf, state |-> "waiting", throws |-> 0, runs |-> 0]

Init ==
  /\ config \in [continuousMode : BOOLEAN, internalLinks : 0..MaxLinks]
  /\ apiKeys \in {K \in SUBSET Keys : "firecrawl" \in K}
  /\ status = QUEUED
  /\ progress = 0
  /\ error = ""
  /\ blocks = <<>>
  /\ article = <<>>
  /\ seo = <<>>
  /\ serp = NoSerp
  /\ msgs = <<NewMessage(NoContinue)>>
  /\ inv = [w \in Slots |-> Idle]
  /\ statusSeq = <<QUEUED>>
  /\ stagesRun = <<>>
  /\ clean = TRUE
  /\ contIssued = FALSE
  /\ dupCount = 0
  /\ fetched = 0
  /\ wrote = [w \in Slots |-> NoWrites]
  /\ cbs = [w \in Slots |-> {}]
  /\ req = NoRequest(0)
  /\ deleted = FALSE
  /\ resp = NoResponse
  /\ log = <<LogEntry("info", "Generation created and queued", 0)>>
  /\ logEvents = <<>>
  /\ statusEvent = NoStatusEvent
  /\ clock = 1
  /\ faults = 0
  /\ down \in {"none"} \cup FatalCalls
  /\ lagBound = 0
  /\ pool = <<>>
  /\ inflight = [p \in 1..NumWorkers |-> 0]
  /\ IdleSide

(***************************************************************************)
(* Queue layer: Bull hands a waiting message to the processor, and settles *)
(* it when the processor returns or throws.                                *)
(***************************************************************************)
\* The slots of one processor are interchangeable: the lowest idle one is
\* taken.
Dispatch(w, m) ==
  /\ inv[w].pc = "idle"
  /\ cbs[w] = {}
  /\ req.pc # "none" => req.lag < lagBound
  /\ \A v \in Slots : v < w => inv[v].pc # "idle"
  /\ msgs[m].state = "waiting"
  /\ msgs' = [msgs EXCEPT ![m].state = "active", ![m].runs = @ + 1]
  /\ inv' = [inv EXCEPT ![w] =
               [Idle EXCEPT !.m = m, !.cf = msgs[m].cf,
                            !.pc = NextPc(0, msgs[m].cf)]]
  /\ wrote' = [wrote EXCEPT ![w] = NoWrites]
  /\ UNCHANGED <<jobVars, histVars, cbs, req, statusEvent, logVars, envVars,
                 poolVars>>

\* A settled message keeps its state only: Bull does not read its counters
\* again.
Settled(msg, st) == [cf |-> msg.cf, state |-> st, throws |-> 0, runs |-> 0]

JobCompleted(w) ==
  /\ At(w, "returned")
  /\ msgs' = [msgs EXCEPT ![inv[w].m] = Settled(@, "completed")]
  /\ inv' = [inv EXCEPT ![w] = Idle]
  /\ cbs[w] = {}
  /\ UNCHANGED <<jobVars, histVars, wrote, statusEvent, cbs, req, logVars, envVars, poolVars>>

\* Fault variant of Retry: one retry more than configured.
RetryOneMore(throws) == IF throws <= Attempts THEN "waiting" ELSE "failed"

\* attempts: 3 with backoff: a thrown attempt is retried while fewer than
\* Attempts attempts were made.
Retry(throws) == IF throws < Attempts THEN "waiting" ELSE "failed"

JobFailed(w) ==
  /\ At(w, "threw")
  /\ LET m == inv[w].m
         t == msgs[m].throws + 1
     IN  msgs' = [msgs EXCEPT ![m] =
                    IF Retry(t) = "waiting"
                    THEN [@ EXCEPT !.throws = t, !.state = "waiting"]
                    ELSE Settled(@, "failed")]
  /\ inv' = [inv EXCEPT ![w] = Idle]
  /\ cbs[w] = {}
  /\ UNCHANGED <<jobVars, histVars, wrote, statusEvent, cbs, req, logVars, envVars, poolVars>>

(***************************************************************************)
(* POST /api/generations/:id/continue by the owner of the job.             *)
(* continueGenerationHandler reads the record and answers 400 unless it is *)
(* paused; continueGeneration reads it again, throws unless it is paused   *)
(* (the handler answers 500), adds a message that carries the status it    *)
(* read, and pushes a log entry; then the handler answers 200. A request   *)
(* is extra when the job is not paused or was continued already.           *)
(***************************************************************************)
ContinueHandler ==
  /\ req.pc = "none"
  /\ findOne(Owner, Job)
  /\ Len(msgs) < MaxMsgs
  /\ LET extra == status \notin pausedStates \/ contIssued IN
     /\ extra => dupCount < MaxDuplicates
     /\ dupCount' = IF extra THEN dupCount + 1 ELSE dupCount
     /\ clean' = (clean /\ ~extra)
     /\ statusSeq' = IF clean /\ ~extra THEN statusSeq ELSE <<>>
     /\ stagesRun' = IF clean /\ ~extra THEN stagesRun ELSE <<>>
  /\ req' = IF status \in pausedStates
            THEN [pc |-> "checked", code |-> 0, at |-> 0, lag |-> 0]
            ELSE NoRequest(400)
  /\ UNCHANGED <<jobVars, msgs, inv, contIssued, fetched, wrote, statusEvent, cbs, logVars,
                 envVars, poolVars>>

ContinueGeneration ==
  /\ req.pc = "checked"
  /\ IF ~deleted /\ status \in pausedStates
     THEN /\ msgs' = Append(msgs, NewMessage(status))
          /\ contIssued' = TRUE
          /\ req' = [pc |-> "queued", code |-> 0, at |-> clock, lag |-> 0]
          /\ clock' = clock + 1
     ELSE /\ req' = NoRequest(500)
          /\ UNCHANGED <<msgs, contIssued, clock>>
  /\ UNCHANGED <<jobVars, inv, statusSeq, stagesRun, clean, dupCount, fetched,
                 wrote, statusEvent, cbs, log, logEvents, envVars, poolVars>>

ContinueLog ==
  /\ req.pc = "queued"
  /\ log' = IF deleted
            THEN log
            ELSE Append(log, LogEntry("info", "Continuing generation", req.at))
  /\ req' = NoRequest(200)
  /\ UNCHANGED <<jobVars, msgs, inv, histVars, wrote, statusEvent, cbs, clock,
                 logEvents, envVars, poolVars>>

(***************************************************************************)
(* STEP 1: SERP parsing.                                                   *)
(***************************************************************************)
SerpBegin(w) ==
  /\ At(w, "serp")
  /\ LET i == Began(inv[w], 1) IN
     IF "firecrawl" \notin apiKeys
     THEN /\ inv' = [inv EXCEPT ![w] =
                       Throw(i, 1, "Firecrawl API key not configured")]
          /\ NoStatusWrite
          /\ Record(w, FALSE, <<>>, <<1>>, <<>>)
     ELSE /\ updateProgress(w, PROCESSING, 5)
          /\ inv' = [inv EXCEPT ![w] =
                       [i EXCEPT !.pc = "serp_parse", !.last = PROCESSING]]
          /\ Record(w, TRUE, <<PROCESSING>>, <<1>>,
                    <<<<"info", "Starting article generation">>>>)
  /\ UNCHANGED <<config, serp, apiKeys, error, blocks, article, seo, msgs, envVars, poolVars>>

SerpParsing(w) ==
  /\ At(w, "serp_parse")
  /\ updateProgress(w, PARSING_SERP, 10)
  /\ inv' = [inv EXCEPT ![w] =
               [@ EXCEPT !.pc = "serp_fetch", !.last = PARSING_SERP]]
  /\ Record(w, TRUE, <<PARSING_SERP>>, <<>>, <<<<"info", "Searching">>>>)
  /\ UNCHANGED <<config, serp, apiKeys, error, blocks, article, seo, msgs, envVars, poolVars>>

\* fetchSerpResults: searchKeyword throws on an HTTP error, and an empty
\* result list is an error too; both are logged by the catch of STEP 1.
SerpSearch(w) ==
  /\ At(w, "serp_fetch")
  /\ \E r \in {"ok", "search_failed", "no_results"},
        n \in 1..(IF MaxSerp < SerpLimit THEN MaxSerp ELSE SerpLimit) :
       LET i == inv[w] IN
       /\ Call({"search", "results"},
               IF r = "no_results" THEN "results" ELSE "search", r)
       /\ r # "ok" => n = 1
       /\ inv' = [inv EXCEPT ![w] =
            CASE r = "search_failed" ->
                   [Throw(i, 1, "Search failed") EXCEPT
                      !.fails = @ \cup {"search"}]
              [] r = "no_results" -> Throw(i, 1, "No search results found")
              [] OTHER -> [i EXCEPT !.pc = "serp_scrape", !.found = n]]
       /\ Record(w, r = "ok", <<>>, <<>>,
                 IF r = "ok" THEN <<>>
                 ELSE <<<<"error", "SERP parsing failed">>>>)
  /\ NoStatusWrite
  /\ UNCHANGED <<config, serp, apiKeys, error, blocks, article, seo, msgs, fixedVars,
                 poolVars>>

\* The progress callback of entry index (1-based), up to its first write:
\* the entry is pushed to the local serpResults and updateProgress is
\* called. fetchSerpResults does not await the callback.
Callback(index, failed) ==
  [index |-> index, failed |-> failed, pc |-> "status", at |-> 0,
   serpResults |-> 0, lag |-> 0]

\* One turn of the scrape loop: a failed scrape only marks its entry; the
\* callback is started and the loop goes on.
SerpScrape(w) ==
  /\ At(w, "serp_scrape")
  /\ \A c \in cbs[w] : c.lag < lagBound
  /\ req.pc # "none" => req.lag < lagBound
  /\ req' = Overtaken(req)
  /\ \E r \in {"ok", "failed"} :
       LET i == inv[w]
           k == i.serpResults + 1
       IN
       /\ Call({"scrape"}, "scrape", r)
       /\ inv' = [inv EXCEPT ![w] =
            [i EXCEPT !.serpResults = k,
                      !.pc = IF k = i.found THEN "serp_save"
                             ELSE "serp_scrape",
                      !.fails = IF r = "ok" THEN @ ELSE @ \cup {"scrape"}]]
       /\ cbs' = [cbs EXCEPT ![w] =
            {[c EXCEPT !.lag = @ + 1] : c \in @}
              \cup {Callback(k, r # "ok")}]
       /\ clean' = (clean /\ r = "ok")
       /\ statusSeq' = IF clean /\ r = "ok" THEN statusSeq ELSE <<>>
       /\ stagesRun' = IF clean /\ r = "ok" THEN stagesRun ELSE <<>>
  /\ NoStatusWrite
  /\ UNCHANGED <<config, serp, apiKeys, error, blocks, article, seo, msgs, fixedVars,
                 dupCount, fetched, logVars, poolVars>>

\* The callback's updateProgress: PARSING_SERP with 10 + 4 * (index + 1) for
\* the 0-based index; then addLog is called and stamps its entry.
CallbackProgress(w, c) ==
  /\ c \in cbs[w] /\ c.pc = "status"
  /\ updateProgress(w, PARSING_SERP, 10 + 4 * c.index)
  /\ cbs' = [cbs EXCEPT ![w] =
       (@ \ {c}) \cup {[c EXCEPT !.pc = "log", !.at = clock]}]
  /\ clock' = clock + 1
  /\ statusSeq' = IF clean THEN Observed(statusSeq, <<PARSING_SERP>>) ELSE <<>>
  /\ UNCHANGED <<config, serp, apiKeys, error, blocks, article, seo, msgs, inv,
                 stagesRun, clean, dupCount, fetched, req, log, logEvents,
                 envVars,
                 poolVars>>

\* The callback's addLog: the stamped entry is pushed; then the local
\* serpResults, as it is by now, is sent to the record.
CallbackLog(w, c) ==
  /\ c \in cbs[w] /\ c.pc = "log"
  /\ LET new == LogEntry(IF c.failed THEN "warn" ELSE "info",
                         IF c.failed THEN "Failed to parse" ELSE "Parsed",
                         c.at)
     IN /\ log' = Append(log, new)
        /\ logEvents' = Append(logEvents, new)
  /\ cbs' = [cbs EXCEPT ![w] =
       (@ \ {c}) \cup {[c EXCEPT !.pc = "save",
                                 !.serpResults = inv[w].serpResults]}]
  /\ UNCHANGED <<jobVars, msgs, inv, histVars, wrote, statusEvent, req, clock, envVars,
                 poolVars>>

\* The callback's last write: serpResults only.
CallbackSave(w, c) ==
  /\ c \in cbs[w] /\ c.pc = "save"
  /\ serp' = [serp EXCEPT !.serpResults = c.serpResults]
  /\ cbs' = [cbs EXCEPT ![w] = @ \ {c}]
  /\ UNCHANGED <<config, apiKeys, status, progress, error, blocks, article, seo,
                 msgs, inv, histVars, wrote, statusEvent, req, logVars, envVars, poolVars>>

\* After the loop: the final write of serpResults with averageWordCount.
SerpSave(w) ==
  /\ At(w, "serp_save")
  /\ serp' = [serpResults |-> inv[w].found, averageWordCount |-> TRUE]
  /\ inv' = [inv EXCEPT ![w] = [@ EXCEPT !.pc = "serp_end"]]
  /\ Overtake(w)
  /\ addLog(<<<<"info", "SERP Analysis complete">>>>)
  /\ fetched' = inv[w].found
  /\ NoStatusWrite
  /\ UNCHANGED <<config, apiKeys, error, blocks, article, seo, msgs, statusSeq,
                 stagesRun, clean, dupCount, envVars, poolVars>>

\* Fault variant of StageEnd: the pause state is persisted but the return is
\* missing, so the processor goes on to the next step.
StageEndNoReturn(w, s, paused, p) ==
  LET i == inv[w] IN
  IF ~continuousMode
  THEN /\ IF p = 0 THEN writeStatus(w, paused)
                     ELSE updateProgress(w, paused, p)
       /\ inv' = [inv EXCEPT ![w] =
                    [i EXCEPT !.pc = NextPc(s, i.cf), !.last = paused]]
       /\ Record(w, TRUE, <<paused>>, <<>>,
                 <<<<"info", "Step completed. Ready for the next step">>>>)
  ELSE /\ inv' = [inv EXCEPT ![w] = [i EXCEPT !.pc = NextPc(s, i.cf)]]
       /\ NoStatusWrite
       /\ Record(w, TRUE, <<>>, <<>>,
                 <<<<"info", "Step completed. Continuing">>>>)

\* The end of a step outside continuous mode: the pause state is persisted
\* (p = 0: the write carries no progress) and the processor returns success.
\* In continuous mode the processor goes on to the next step.
StageEnd(w, s, paused, p) ==
  LET i == inv[w] IN
  IF ~continuousMode
  THEN /\ IF p = 0 THEN writeStatus(w, paused)
                     ELSE updateProgress(w, paused, p)
       /\ inv' = [inv EXCEPT ![w] =
                    [i EXCEPT !.pc = "returned", !.last = paused]]
       /\ Record(w, TRUE, <<paused>>, <<>>,
                 <<<<"info", "Step completed. Ready for the next step">>>>)
  ELSE /\ inv' = [inv EXCEPT ![w] = [i EXCEPT !.pc = NextPc(s, i.cf)]]
       /\ NoStatusWrite
       /\ Record(w, TRUE, <<>>, <<>>,
                 <<<<"info", "Step completed. Continuing">>>>)

SerpEnd(w) ==
  /\ At(w, "serp_end")
  /\ StageEnd(w, 1, PAUSED_AFTER_SERP, 50)
  /\ UNCHANGED <<config, serp, apiKeys, error, blocks, article, seo, msgs, envVars, poolVars>>

(***************************************************************************)
(* STEP 2: structure analysis.                                             *)
(***************************************************************************)
StructureBegin(w) ==
  /\ At(w, "structure")
  /\ LET i == Began(inv[w], 2) IN
     IF "openRouter" \notin apiKeys
     THEN /\ inv' = [inv EXCEPT ![w] =
                       Throw(i, 2, "OpenRouter API key not configured")]
          /\ NoStatusWrite
          /\ Record(w, FALSE, <<>>, <<2>>, <<>>)
     ELSE /\ updateProgress(w, ANALYZING_STRUCTURE, 55)
          /\ inv' = [inv EXCEPT ![w] =
               [i EXCEPT !.pc = "structure_call", !.last = ANALYZING_STRUCTURE]]
          /\ Record(w, TRUE, <<ANALYZING_STRUCTURE>>, <<2>>,
                    <<<<"info", "Starting structure analysis">>>>)
  /\ UNCHANGED <<config, serp, apiKeys, error, blocks, article, seo, msgs, envVars, poolVars>>

\* Fault variant of StructureAnalyze: a failed analysis falls back to the
\* blocks already stored instead of rethrowing.
StructureAnalyzeFallback(w) ==
  /\ At(w, "structure_call")
  /\ \E r \in {"ok", "failed"} :
       LET i == inv[w] IN
       /\ Call({"analyze"}, "analyze", r)
       /\ updateProgress(w, ANALYZING_STRUCTURE, 65)
       /\ blocks' = <<"structure">>
       /\ inv' = [inv EXCEPT ![w] =
            [i EXCEPT !.pc = "structure_end", !.last = ANALYZING_STRUCTURE,
                      !.fails = IF r = "ok" THEN @ ELSE @ \cup {"analyze"}]]
       /\ Record(w, r = "ok", <<ANALYZING_STRUCTURE>>, <<>>, <<>>)
  /\ UNCHANGED <<config, serp, apiKeys, error, article, seo, msgs, fixedVars, poolVars>>

\* analyzeStructures rethrows every failure of the chat call or of parsing.
StructureAnalyze(w) ==
  /\ At(w, "structure_call")
  /\ \E r \in {"ok", "failed"} :
       LET i == inv[w] IN
       /\ Call({"analyze"}, "analyze", r)
       /\ IF r = "failed"
          THEN /\ inv' = [inv EXCEPT ![w] =
                    [Throw(i, 2, "Structure analysis failed") EXCEPT
                       !.fails = @ \cup {"analyze"}]]
               /\ NoStatusWrite
               /\ blocks' = blocks
               /\ Record(w, FALSE, <<>>, <<>>,
                         <<<<"error", "Structure analysis failed">>>>)
          ELSE /\ updateProgress(w, ANALYZING_STRUCTURE, 65)
               /\ blocks' = <<"structure">>
               /\ inv' = [inv EXCEPT ![w] =
                    [i EXCEPT !.pc = "structure_end",
                              !.last = ANALYZING_STRUCTURE]]
               /\ Record(w, TRUE, <<ANALYZING_STRUCTURE>>, <<>>,
                         <<<<"info", "Structure analysis complete">>>>)
  /\ UNCHANGED <<config, serp, apiKeys, error, article, seo, msgs, fixedVars, poolVars>>

StructureEnd(w) ==
  /\ At(w, "structure_end")
  /\ StageEnd(w, 2, PAUSED_AFTER_STRUCTURE, 70)
  /\ UNCHANGED <<config, serp, apiKeys, error, blocks, article, seo, msgs, envVars, poolVars>>

(***************************************************************************)
(* STEP 3: block enrichment.                                               *)
(***************************************************************************)
\* The status is written, then the record is reloaded; a record without
\* blocks is an error.
Reload(w, i, s, st, p, next, e) ==
  /\ updateProgress(w, st, p)
  /\ inv' = [inv EXCEPT ![w] =
       IF blocks = <<>> THEN [Throw(i, s, e) EXCEPT !.last = st]
       ELSE [i EXCEPT !.pc = next, !.last = st, !.loc = blocks]]
  /\ Record(w, blocks # <<>>, <<st>>, <<s>>, <<<<"info", "Starting step">>>>)

BlocksBegin(w) ==
  /\ At(w, "blocks")
  /\ LET i == Began(inv[w], 3) IN
     IF "openRouter" \notin apiKeys
     THEN /\ inv' = [inv EXCEPT ![w] =
                       Throw(i, 3, "OpenRouter API key not configured")]
          /\ NoStatusWrite
          /\ Record(w, FALSE, <<>>, <<3>>, <<>>)
     ELSE Reload(w, i, 3, ENRICHING_BLOCKS, 75, "blocks_call",
                 "No article blocks found for enrichment")
  /\ UNCHANGED <<config, serp, apiKeys, error, blocks, article, seo, msgs, envVars, poolVars>>

\* enrichBlockInstructions returns the blocks it was given when the chat
\* call or the parsing fails.
BlocksEnrich(w) ==
  /\ At(w, "blocks_call")
  /\ \E r \in {"ok", "failed"} :
       LET i == inv[w] IN
       /\ Call({"enrich"}, "enrich", r)
       /\ updateProgress(w, ENRICHING_BLOCKS, 85)
       /\ blocks' = IF r = "ok" THEN Append(i.loc, "enrich") ELSE i.loc
       /\ inv' = [inv EXCEPT ![w] =
            [i EXCEPT !.pc = "blocks_end", !.last = ENRICHING_BLOCKS,
                      !.fails = IF r = "ok" THEN @ ELSE @ \cup {"enrich"}]]
       /\ Record(w, r = "ok", <<ENRICHING_BLOCKS>>, <<>>,
                 <<<<"info", "Block enrichment complete">>>>)
  /\ UNCHANGED <<config, serp, apiKeys, error, article, seo, msgs, fixedVars, poolVars>>

BlocksEnd(w) ==
  /\ At(w, "blocks_end")
  /\ StageEnd(w, 3, PAUSED_AFTER_BLOCKS, 88)
  /\ UNCHANGED <<config, serp, apiKeys, error, blocks, article, seo, msgs, envVars, poolVars>>

(***************************************************************************)
(* STEP 4: question answering.                                             *)
(***************************************************************************)
AnswersBegin(w) ==
  /\ At(w, "answers")
  /\ LET i == Began(inv[w], 4) IN
     IF "supabase" \notin apiKeys \/ "openRouter" \notin apiKeys
     THEN /\ inv' = [inv EXCEPT ![w] =
               Throw(i, 4, IF "supabase" \notin apiKeys
                           THEN "Supabase credentials not configured"
                           ELSE "OpenRouter API key not configured")]
          /\ NoStatusWrite
          /\ Record(w, FALSE, <<>>, <<4>>, <<>>)
     ELSE Reload(w, i, 4, ANSWERING_QUESTIONS, 90, "answers_connect",
                 "No article blocks found for question answering")
  /\ UNCHANGED <<config, serp, apiKeys, error, blocks, article, seo, msgs, envVars, poolVars>>

\* testConnection: a failed connection is an error of the stage.
AnswersConnect(w) ==
  /\ At(w, "answers_connect")
  /\ \E r \in {"ok", "failed"} :
       LET i == inv[w] IN
       /\ Call({"connect"}, "connect", r)
       /\ inv' = [inv EXCEPT ![w] =
            IF r = "ok" THEN [i EXCEPT !.pc = "answers_search"]
            ELSE [Throw(i, 4, "Failed to connect to Supabase") EXCEPT
                    !.fails = @ \cup {"connect"}]]
       /\ Record(w, r = "ok", <<>>, <<>>,
                 IF r = "ok"
                 THEN <<<<"info", "Supabase connection established">>>>
                 ELSE <<<<"error", "Question answering failed">>>>)
  /\ NoStatusWrite
  /\ UNCHANGED <<config, serp, apiKeys, error, blocks, article, seo, msgs, fixedVars, poolVars>>

\* findAnswer returns null when the embedding or the match call fails; the
\* progress is 90 + 5 * answered / total.
AnswersSearch(w) ==
  /\ At(w, "answers_search")
  /\ \E r \in {"ok", "failed"} :
       LET i == inv[w] IN
       /\ Call({"findAnswer"}, "findAnswer", r)
       /\ updateProgress(w, ANSWERING_QUESTIONS, IF r = "ok" THEN 95 ELSE 90)
       /\ blocks' = Append(i.loc, "answers")
       /\ inv' = [inv EXCEPT ![w] =
            [i EXCEPT !.pc = "answers_end", !.last = ANSWERING_QUESTIONS,
                      !.fails = IF r = "ok" THEN @ ELSE @ \cup {"findAnswer"}]]
       /\ Record(w, r = "ok", <<ANSWERING_QUESTIONS>>, <<>>,
                 IF r = "ok" THEN <<<<"info", "Found answer">>>>
                 ELSE <<<<"warn", "Error searching for answer">>>>)
  /\ UNCHANGED <<config, serp, apiKeys, error, article, seo, msgs, fixedVars, poolVars>>

AnswersEnd(w) ==
  /\ At(w, "answers_end")
  /\ StageEnd(w, 4, PAUSED_AFTER_ANSWERS, 96)
  /\ UNCHANGED <<config, serp, apiKeys, error, blocks, article, seo, msgs, envVars, poolVars>>

(***************************************************************************)
(* STEP 5: article writing.                                                *)
(***************************************************************************)
WritingBegin(w) ==
  /\ At(w, "writing")
  /\ LET i == Began(inv[w], 5) IN
     IF "openRouter" \notin apiKeys
     THEN /\ inv' = [inv EXCEPT ![w] =
                       Throw(i, 5, "OpenRouter API key not configured")]
          /\ NoStatusWrite
          /\ Record(w, FALSE, <<>>, <<5>>, <<>>)
     ELSE Reload(w, i, 5, WRITING_ARTICLE, 97, "writing_call",
                 "No article blocks found for writing")
  /\ UNCHANGED <<config, serp, apiKeys, error, blocks, article, seo, msgs, envVars, poolVars>>

\* generateBlockContent rethrows every failure; the last block is written
\* at progress 99 and the article is assembled from the written blocks.
WritingGenerate(w) ==
  /\ At(w, "writing_call")
  /\ \E r \in {"ok", "failed"} :
       LET i == inv[w] IN
       /\ Call({"write"}, "write", r)
       /\ IF r = "failed"
          THEN /\ inv' = [inv EXCEPT ![w] =
                    [Throw(i, 5, "Content generation failed") EXCEPT
                       !.fails = @ \cup {"write"}]]
               /\ NoStatusWrite
               /\ UNCHANGED <<blocks, article>>
               /\ Record(w, FALSE, <<>>, <<>>,
                         <<<<"error", "Article writing failed">>>>)
          ELSE /\ \E n \in {1, MaxBlocks} :
                    updateProgressPerBlock(w, WRITING_ARTICLE, n)
               /\ blocks' = Append(i.loc, "write")
               /\ article' = Append(i.loc, "write")
               /\ inv' = [inv EXCEPT ![w] =
                    [i EXCEPT !.pc = "writing_end", !.last = WRITING_ARTICLE]]
               /\ Record(w, TRUE, <<WRITING_ARTICLE>>, <<>>,
                         <<<<"success", "Article writing complete">>>>)
  /\ UNCHANGED <<config, serp, apiKeys, error, seo, msgs, fixedVars, poolVars>>

WritingEnd(w) ==
  /\ At(w, "writing_end")
  /\ StageEnd(w, 5, PAUSED_AFTER_WRITING, 97)
  /\ UNCHANGED <<config, serp, apiKeys, error, blocks, article, seo, msgs, envVars, poolVars>>

(***************************************************************************)
(* STEP 6: internal link insertion. Entered by every invocation that gets  *)
(* this far; it runs when the job has internal links.                      *)
(***************************************************************************)
LinksCheck(w) ==
  /\ At(w, "links")
  /\ LET i == inv[w] IN
     IF config.internalLinks = 0
     THEN /\ inv' = [inv EXCEPT ![w] = [i EXCEPT !.pc = NextPc(6, i.cf)]]
          /\ NoStatusWrite
          /\ Record(w, TRUE, <<>>, <<>>,
                    <<<<"debug", "Checking for internal links">>>>)
     ELSE /\ updateProgress(w, INSERTING_LINKS, 99)
          /\ inv' = [inv EXCEPT ![w] =
               [Began(i, 6) EXCEPT !.pc = "links_insert",
                                   !.last = INSERTING_LINKS]]
          /\ Record(w, TRUE, <<INSERTING_LINKS>>, <<6>>,
                    <<<<"info", "Starting internal link insertion">>>>)
  /\ UNCHANGED <<config, serp, apiKeys, error, blocks, article, seo, msgs, envVars, poolVars>>

\* The try block of STEP 6: every error thrown in it (the key is missing,
\* the record cannot be read, ...) is logged and dropped ("threw").
\* insertLinksIntoBlock appends the links itself when its chat call fails
\* ("failed"). The article and the blocks are saved at the end of the block.
LinksInsert(w) ==
  /\ At(w, "links_insert")
  /\ \E r \in {"ok", "failed", "threw"} :
       LET i == inv[w] IN
       /\ IF "openRouter" \notin apiKeys
          THEN r = "threw" /\ UNCHANGED faults
          ELSE Call({"insertLinks", "linkInsertion"},
                    IF r = "threw" THEN "linkInsertion" ELSE "insertLinks", r)
       /\ IF r = "threw"
          THEN /\ inv' = [inv EXCEPT ![w] =
                    [i EXCEPT !.pc = NextPc(6, i.cf), !.raised = @ \cup {6},
                              !.absorbed = @ \cup {6}]]
               /\ UNCHANGED <<blocks, article>>
               /\ Record(w, FALSE, <<>>, <<>>,
                         <<<<"error", "Link insertion failed">>,
                           <<"warn", "some links may not have been inserted">>>>)
          ELSE /\ blocks' = Append(blocks, "links")
               /\ article' = Append(blocks, "links")
               /\ inv' = [inv EXCEPT ![w] =
                    [i EXCEPT !.pc = NextPc(6, i.cf),
                              !.fails = IF r = "ok" THEN @
                                        ELSE @ \cup {"insertLinks"}]]
               /\ Record(w, r = "ok", <<>>, <<>>,
                         <<<<"success", "All links inserted">>>>)
  /\ NoStatusWrite
  /\ UNCHANGED <<config, serp, apiKeys, error, seo, msgs, fixedVars, poolVars>>

(***************************************************************************)
(* STEP 7: review and SEO metadata.                                        *)
(***************************************************************************)
ReviewBegin(w) ==
  /\ At(w, "review")
  /\ LET i == Began(inv[w], 7) IN
     /\ updateProgress(w, REVIEWING_ARTICLE, 99)
     /\ inv' = [inv EXCEPT ![w] =
          IF "openRouter" \notin apiKeys
          THEN [Throw(i, 7, "OpenRouter API key not configured") EXCEPT
                  !.last = REVIEWING_ARTICLE]
          ELSE [i EXCEPT !.pc = "review_call", !.last = REVIEWING_ARTICLE,
                         !.loc = blocks]]
     /\ Record(w, "openRouter" \in apiKeys, <<REVIEWING_ARTICLE>>, <<7>>,
               <<<<"info", "Step 7: Article Review">>>>)
  /\ UNCHANGED <<config, serp, apiKeys, error, blocks, article, seo, msgs, envVars, poolVars>>

\* The try block of STEP 7. reviewArticleQuality, fixBlockContent and
\* generateSeoMetadata fall back on a failed chat call ("failed"); an error
\* thrown in the block, as for a review entry without an issues array
\* ("malformed"), is logged and the processor proceeds to completion.
ReviewRun(w) ==
  /\ At(w, "review_call")
  /\ \E r \in {"ok", "failed", "malformed"} :
       LET i == inv[w] IN
       /\ Call({"review", "reviewFormat"},
               IF r = "malformed" THEN "reviewFormat" ELSE "review", r)
       /\ blocks' = CASE r = "ok" -> Append(i.loc, "review")
                      [] r = "failed" -> i.loc
                      [] OTHER -> blocks
       /\ article' = CASE r = "ok" -> Append(i.loc, "review")
                       [] r = "failed" -> i.loc
                       [] OTHER -> article
       /\ seo' = CASE r = "ok" -> Append(i.loc, "review")
                   [] r = "failed" -> <<"fallback">>
                   [] OTHER -> seo
       /\ inv' = [inv EXCEPT ![w] =
            [i EXCEPT !.pc = IF r = "malformed" THEN "complete"
                             ELSE "review_end",
                      !.fails = IF r = "ok" THEN @ ELSE @ \cup {"review"},
                      !.raised = IF r = "malformed" THEN @ \cup {7} ELSE @,
                      !.absorbed = IF r = "malformed" THEN @ \cup {7} ELSE @]]
       /\ Record(w, r = "ok", <<>>, <<>>,
                 IF r = "malformed"
                 THEN <<<<"error", "Article review failed">>,
                        <<"warn", "Proceeding to completion without review">>>>
                 ELSE <<<<"success", "SEO metadata generated">>>>)
  /\ NoStatusWrite
  /\ UNCHANGED <<config, serp, apiKeys, error, msgs, fixedVars, poolVars>>

ReviewEnd(w) ==
  /\ At(w, "review_end")
  /\ StageEnd(w, 7, PAUSED_AFTER_REVIEW, 0)
  /\ UNCHANGED <<config, serp, apiKeys, error, blocks, article, seo, msgs, envVars, poolVars>>

\* Mark as completed, publish generation:completed, return success.
Complete(w) ==
  /\ At(w, "complete")
  /\ updateProgress(w, COMPLETED, 100)
  /\ inv' = [inv EXCEPT ![w] =
               [@ EXCEPT !.pc = "returned", !.last = COMPLETED]]
  /\ Record(w, TRUE, <<COMPLETED>>, <<>>,
            <<<<"info", "Article generation completed successfully">>>>)
  /\ UNCHANGED <<config, serp, apiKeys, error, blocks, article, seo, msgs, envVars, poolVars>>

(***************************************************************************)
(* The processor's outer catch: persist FAILED and the error, log, publish *)
(* generation:error, rethrow.                                              *)
(***************************************************************************)
CatchPersist(w) ==
  /\ At(w, "catch")
  /\ status' = FAILED
  /\ error' = inv[w].err
  /\ contIssued' = (contIssued /\ status = FAILED)
  /\ wrote' = [wrote EXCEPT ![w].sts = Written(@, FAILED)]
  /\ statusEvent' = statusEvent
  /\ inv' = [inv EXCEPT ![w] = [@ EXCEPT !.pc = "catch_emit", !.last = FAILED]]
  /\ Record(w, FALSE, <<>>, <<>>, <<>>)
  /\ UNCHANGED <<config, serp, apiKeys, progress, blocks, article, seo, msgs, envVars, poolVars>>

CatchEmit(w) ==
  /\ At(w, "catch_emit")
  /\ inv' = [inv EXCEPT ![w] =
               [@ EXCEPT !.pc = "threw", !.errEvents = @ + 1]]
  /\ Overtake(w)
  /\ addLog(<<<<"error", "Generation failed">>>>)
  /\ UNCHANGED <<jobVars, msgs, histVars, wrote, statusEvent, envVars, poolVars>>

(***************************************************************************)
(* The job, its messages and the invocations that run on it.               *)
(***************************************************************************)
Next ==
  \/ \E w \in Slots : \E m \in 1..Len(msgs) : Dispatch(w, m)
  \/ \E w \in Slots : JobCompleted(w)
  \/ \E w \in Slots : JobFailed(w)
  \/ ContinueHandler
  \/ ContinueGeneration
  \/ ContinueLog
  \/ \E w \in Slots : SerpBegin(w)
  \/ \E w \in Slots : SerpParsing(w)
  \/ \E w \in Slots : SerpSearch(w)
  \/ \E w \in Slots : SerpScrape(w)
  \/ \E w \in Slots : \E c \in cbs[w] : CallbackProgress(w, c)
  \/ \E w \in Slots : \E c \in cbs[w] : CallbackLog(w, c)
  \/ \E w \in Slots : \E c \in cbs[w] : CallbackSave(w, c)
  \/ \E w \in Slots : SerpSave(w)
  \/ \E w \in Slots : SerpEnd(w)
  \/ \E w \in Slots : StructureBegin(w)
  \/ \E w \in Slots : StructureAnalyze(w)
  \/ \E w \in Slots : StructureEnd(w)
  \/ \E w \in Slots : BlocksBegin(w)
  \/ \E w \in Slots : BlocksEnrich(w)
  \/ \E w \in Slots : BlocksEnd(w)
  \/ \E w \in Slots : AnswersBegin(w)
  \/ \E w \in Slots : AnswersConnect(w)
  \/ \E w \in Slots : AnswersSearch(w)
  \/ \E w \in Slots : AnswersEnd(w)
  \/ \E w \in Slots : WritingBegin(w)
  \/ \E w \in Slots : WritingGenerate(w)
  \/ \E w \in Slots : WritingEnd(w)
  \/ \E w \in Slots : LinksCheck(w)
  \/ \E w \in Slots : LinksInsert(w)
  \/ \E w \in Slots : ReviewBegin(w)
  \/ \E w \in Slots : ReviewRun(w)
  \/ \E w \in Slots : ReviewEnd(w)
  \/ \E w \in Slots : Complete(w)
  \/ \E w \in Slots : CatchPersist(w)
  \/ \E w \in Slots : CatchEmit(w)

Spec == Init /\ [][Next]_vars

(***************************************************************************)
(* The jobs whose floating steps may be overtaken: the progress callbacks  *)
(* of STEP 1 and the steps of a continue request run up to MaxLag steps    *)
(* of a worker late. That is followed for the jobs of an owner with the    *)
(* Firecrawl key alone, which pause after STEP 1 and fail in STEP 2; the   *)
(* jobs of an owner with every key run as in Spec.                         *)
(***************************************************************************)
InitLag ==
  /\ config \in [continuousMode : BOOLEAN, internalLinks : 0..MaxLinks]
  /\ apiKeys \in {{"firecrawl"}, Keys}
  /\ config.continuousMode => apiKeys = Keys
  /\ status = QUEUED
  /\ progress = 0
  /\ error = ""
  /\ blocks = <<>>
  /\ article = <<>>
  /\ seo = <<>>
  /\ serp = NoSerp
  /\ msgs = <<NewMessage(NoContinue)>>
  /\ inv = [w \in Slots |-> Idle]
  /\ statusSeq = <<QUEUED>>
  /\ stagesRun = <<>>
  /\ clean = TRUE
  /\ contIssued = FALSE
  /\ dupCount = 0
  /\ fetched = 0
  /\ wrote = [w \in Slots |-> NoWrites]
  /\ cbs = [w \in Slots |-> {}]
  /\ req = NoRequest(0)
  /\ deleted = FALSE
  /\ resp = NoResponse
  /\ log = <<LogEntry("info", "Generation created and queued", 0)>>
  /\ logEvents = <<>>
  /\ statusEvent = NoStatusEvent
  /\ clock = 1
  /\ faults = 0
  /\ down = "none"
  /\ lagBound = IF apiKeys = {"firecrawl"} THEN MaxLag ELSE 0
  /\ pool = <<>>
  /\ inflight = [p \in 1..NumWorkers |-> 0]
  /\ IdleSide

SpecLag == InitLag /\ [][Next]_vars

(***************************************************************************)
(* The job of Spec (outside continuous mode, with internal links) and the  *)
(* requests of the principals A, who owns it, and B, for its id and for    *)
(* an id no record has. The owner deletes the job only when it is at       *)
(* rest: no invocation in flight, no message to run, no continue request   *)
(* being handled.                                                          *)
(***************************************************************************)
AtRest ==
  /\ req.pc = "none"
  /\ \A w \in Slots : inv[w].pc = "idle" /\ cbs[w] = {}
  /\ \A m \in DOMAIN msgs : msgs[m].state \in {"completed", "failed"}

restVars ==
  <<jobVars, msgs, inv, histVars, wrote, statusEvent, cbs, req, logVars,
    faults, down, lagBound, sideVars, poolVars>>

getGeneration(p, id) ==
  /\ resp' = Response("get", p, id, answer(p, id, "generation"))
  /\ UNCHANGED <<deleted, restVars>>

getGenerationLogs(p, id) ==
  /\ resp' = Response("logs", p, id, answer(p, id, "logs"))
  /\ UNCHANGED <<deleted, restVars>>

deleteGeneration(p, id) ==
  /\ findOne(p, id) => AtRest
  /\ resp' = Response("delete", p, id,
                      answer(p, id, "Generation deleted successfully"))
  /\ deleted' = (deleted \/ findOne(p, id))
  /\ UNCHANGED restVars

\* continueGenerationHandler when the lookup finds nothing.
ContinueNotFound(p, id) ==
  /\ req.pc = "none"
  /\ ~findOne(p, id)
  /\ resp' = Response("continue", p, id, NotFound)
  /\ UNCHANGED <<deleted, restVars>>

InitApi ==
  /\ config = [continuousMode |-> FALSE, internalLinks |-> MaxLinks]
  /\ apiKeys \in {{"firecrawl"}, Keys}
  /\ status = QUEUED
  /\ progress = 0
  /\ error = ""
  /\ blocks = <<>>
  /\ article = <<>>
  /\ seo = <<>>
  /\ serp = NoSerp
  /\ msgs = <<NewMessage(NoContinue)>>
  /\ inv = [w \in Slots |-> Idle]
  /\ statusSeq = <<QUEUED>>
  /\ stagesRun = <<>>
  /\ clean = TRUE
  /\ contIssued = FALSE
  /\ dupCount = 0
  /\ fetched = 0
  /\ wrote = [w \in Slots |-> NoWrites]
  /\ cbs = [w \in Slots |-> {}]
  /\ req = NoRequest(0)
  /\ deleted = FALSE
  /\ resp = NoResponse
  /\ log = <<LogEntry("info", "Generation created and queued", 0)>>
  /\ logEvents = <<>>
  /\ statusEvent = NoStatusEvent
  /\ clock = 1
  /\ faults = 0
  /\ down = "none"
  /\ lagBound = 0
  /\ pool = <<>>
  /\ inflight = [p \in 1..NumWorkers |-> 0]
  /\ IdleSide

NextApi ==
  \/ Next
  \/ \E p \in Principals, id \in Ids : getGeneration(p, id)
  \/ \E p \in Principals, id \in Ids : getGenerationLogs(p, id)
  \/ \E p \in Principals, id \in Ids : deleteGeneration(p, id)
  \/ \E p \in Principals, id \in Ids : ContinueNotFound(p, id)

SpecApi == InitApi /\ [][NextApi]_vars

(***************************************************************************)
(* The worker pool. Every worker process registers the processor with      *)
(* generationQueue.process(config.queue.maxConcurrentGenerations, ...), so *)
(* Bull hands a process a waiting message while it holds fewer than that   *)
(* many. Messages are taken in insertion order; an invocation that ends    *)
(* (returning or throwing) frees its slot.                                 *)
(***************************************************************************)
Workers == 1..NumWorkers

processConcurrency == maxConcurrentGenerations

\* No job is running: the pipeline and the pool at rest.
Quiet ==
  /\ config = [continuousMode |-> FALSE, internalLinks |-> 0]
  /\ apiKeys = Keys
  /\ status = QUEUED
  /\ progress = 0
  /\ error = ""
  /\ blocks = <<>>
  /\ article = <<>>
  /\ seo = <<>>
  /\ serp = NoSerp
  /\ msgs = <<>>
  /\ inv = [w \in Slots |-> Idle]
  /\ statusSeq = <<QUEUED>>
  /\ stagesRun = <<>>
  /\ clean = TRUE
  /\ contIssued = FALSE
  /\ dupCount = 0
  /\ fetched = 0
  /\ wrote = [w \in Slots |-> NoWrites]
  /\ cbs = [w \in Slots |-> {}]
  /\ req = NoRequest(0)
  /\ deleted = FALSE
  /\ resp = NoResponse
  /\ log = <<>>
  /\ logEvents = <<>>
  /\ statusEvent = NoStatusEvent
  /\ clock = 0
  /\ faults = 0
  /\ down = "none"
  /\ lagBound = 0
  /\ pool = <<>>
  /\ inflight = [p \in Workers |-> 0]

InitPool == Quiet /\ IdleSide

\* createGeneration -> queueGeneration: one message per new job.
PoolAdd ==
  /\ Len(pool) < MaxPoolJobs
  /\ pool' = Append(pool, [state |-> "waiting", worker |-> 0])
  /\ UNCHANGED <<inflight, pipeVars>>

PoolProcess(p) ==
  /\ inflight[p] < processConcurrency
  /\ \E m \in 1..Len(pool) :
       /\ pool[m].state = "waiting"
       /\ \A k \in 1..(m - 1) : pool[k].state # "waiting"
       /\ pool' = [pool EXCEPT ![m] = [state |-> "active", worker |-> p]]
  /\ inflight' = [inflight EXCEPT ![p] = @ + 1]
  /\ UNCHANGED pipeVars

PoolSettle(p) ==
  /\ \E m \in 1..Len(pool) :
       /\ pool[m] = [state |-> "active", worker |-> p]
       /\ pool' = [pool EXCEPT ![m] = [state |-> "done", worker |-> 0]]
  /\ inflight' = [inflight EXCEPT ![p] = @ - 1]
  /\ UNCHANGED pipeVars

NextPool ==
  \/ PoolAdd
  \/ \E p \in Workers : PoolProcess(p)
  \/ \E p \in Workers : PoolSettle(p)

SpecPool == InitPool /\ [][NextPool]_vars

(***************************************************************************)
(* SpecBus: a process group of one to MaxProcs API processes, a worker     *)
(* that publishes events, and client sessions that connect, subscribe,     *)
(* unsubscribe and disconnect.                                             *)
(***************************************************************************)
InitBus ==
  /\ Quiet
  /\ IdleBlocks
  /\ IdleLinks
  /\ IdlePin
  /\ IdleMask
  /\ IdleProject
  /\ cluster \in [procs : Procs, adapter : BOOLEAN]
  /\ sess = [c \in Sessions |-> NoSession]
  /\ bus = [p \in Procs |-> <<>>]
  /\ adapter = [p \in Procs |-> <<>>]
  /\ delivered = [c \in Sessions |-> <<>>]
  /\ published = 0

busRest == <<coreVars, blockVars, linkVars, pinVars, miscVars>>

\* io.use and io.on('connection'): a client connects to process p with a
\* token; the middleware refuses it unless the token is there and verifies.
Connect(c, p, token) ==
  /\ sess[c].state = "new"
  /\ p <= cluster.procs
  /\ sess' = [sess EXCEPT ![c] =
       IF token # "missing" /\ verifyToken(token)
       THEN [state |-> "connected", proc |-> p, token |-> token, rooms |-> {}]
       ELSE [state |-> "refused", proc |-> p, token |-> token, rooms |-> {}]]
  /\ UNCHANGED <<cluster, bus, adapter, delivered, published, busRest>>

\* socket.on('generation:subscribe'): socket.join
Subscribe(c, room) ==
  /\ sess[c].state = "connected"
  /\ sess' = [sess EXCEPT ![c].rooms = @ \cup {room}]
  /\ UNCHANGED <<cluster, bus, adapter, delivered, published, busRest>>

\* socket.on('generation:unsubscribe'): socket.leave
Unsubscribe(c, room) ==
  /\ sess[c].state = "connected"
  /\ sess' = [sess EXCEPT ![c].rooms = @ \ {room}]
  /\ UNCHANGED <<cluster, bus, adapter, delivered, published, busRest>>

\* The socket closes; it leaves its rooms.
Disconnect(c) ==
  /\ sess[c].state = "connected"
  /\ sess' = [sess EXCEPT ![c].state = "closed", ![c].rooms = {}]
  /\ UNCHANGED <<cluster, bus, adapter, delivered, published, busRest>>

\* publishSocketEvent: one publish to the channel reaches the subscriber of
\* every API process.
publishSocketEvent(room) ==
  /\ published < MaxEvents
  /\ published' = published + 1
  /\ bus' = [p \in Procs |->
               IF p <= cluster.procs
               THEN Append(bus[p], [id |-> published + 1, room |-> room])
               ELSE bus[p]]
  /\ UNCHANGED <<cluster, sess, adapter, delivered, busRest>>

\* subscriber.on('message') in process p: io.to(room).emit(event, data).
OnMessage(p) ==
  /\ bus[p] # <<>>
  /\ LET e == Head(bus[p]) IN
     /\ bus' = [bus EXCEPT ![p] = Tail(@)]
     /\ Deliver(p, e)
     /\ adapter' = [q \in Procs |->
                      IF cluster.adapter /\ q <= cluster.procs /\ q # p
                      THEN Append(adapter[q], e)
                      ELSE adapter[q]]
  /\ UNCHANGED <<cluster, sess, published, busRest>>

\* The adapter of process p receives the packet of another process.
OnAdapterPacket(p) ==
  /\ adapter[p] # <<>>
  /\ adapter' = [adapter EXCEPT ![p] = Tail(@)]
  /\ Deliver(p, Head(adapter[p]))
  /\ UNCHANGED <<cluster, sess, bus, published, busRest>>

NextBus ==
  \/ \E c \in Sessions, p \in Procs, t \in Tokens : Connect(c, p, t)
  \/ \E c \in Sessions, r \in Rooms : Subscribe(c, r)
  \/ \E c \in Sessions, r \in Rooms : Unsubscribe(c, r)
  \/ \E c \in Sessions : Disconnect(c)
  \/ \E r \in Rooms : publishSocketEvent(r)
  \/ \E p \in Procs : OnMessage(p)
  \/ \E p \in Procs : OnAdapterPacket(p)

SpecBus == InitBus /\ [][NextBus]_vars

(***************************************************************************)
(* SpecBlocks: the block list of one job through STEP 2 to STEP 5, block   *)
(* by block, for the arrays the structure analysis and the enrichment may  *)
(* return and for every outcome of the vector search.                      *)
(***************************************************************************)
Questions == {"q1", "q2"}
QuestionLists ==
  UNION {[1..n -> Questions] : n \in 0..MaxQuestions}

ContentTypes == {"h2", "h3"}
\* The types of the blocks of the structures the analysis returns.
Templates ==
  {<<"h1", "intro", "h2", "h2", "conclusion">>,
   <<"h1", "intro", "h2", "h3", "faq">>}

\* The ids of the blocks of a returned structure: counted from 0 or from 1,
\* and with the id of block dup given to the block after it too.
StructureIds ==
  {[k \in 1..MinStructure |->
      first + (k - 1) - (IF dup # 0 /\ k > dup THEN 1 ELSE 0)] :
     first \in 0..1, dup \in 0..1}

NewBlock(id, type, questions) ==
  [id |-> id, type |-> type, questions |-> questions,
   answeredQuestions |-> <<>>, content |-> FALSE]

BlockIds(bs) == {bs[k].id : k \in DOMAIN bs}
Texts(qs) == {qs[k] : k \in DOMAIN qs}

\* analyzeStructures: the first block of each of the types intro,
\* conclusion, faq and h1 loses its questions.
First(bs, type) ==
  IF \E k \in DOMAIN bs : bs[k].type = type
  THEN {CHOOSE k \in DOMAIN bs :
          /\ bs[k].type = type
          /\ \A j \in 1..(k - 1) : bs[j].type # type}
  ELSE {}

analyzeStructures(bs) ==
  LET cleared == UNION {First(bs, t) : t \in {"intro", "conclusion", "faq", "h1"}}
  IN [k \in DOMAIN bs |->
        IF k \in cleared THEN [bs[k] EXCEPT !.questions = <<>>] ELSE bs[k]]

\* enrichBlockInstructions on the array the model returned: ids are the
\* indexes, blocks that are not content blocks carry no questions.
enrichBlockInstructions(returned) ==
  [k \in DOMAIN returned |->
     [returned[k] EXCEPT
        !.id = k - 1,
        !.questions = IF returned[k].type \in ContentTypes THEN @ ELSE <<>>]]

\* The texts of the answered questions, in the order they were asked.
RECURSIVE Answered(_, _, _)
Answered(questions, found, k) ==
  IF k > Len(questions) THEN <<>>
  ELSE (IF k \in found THEN <<questions[k]>> ELSE <<>>)
       \o Answered(questions, found, k + 1)

\* STEP 4 keeps every question of the block.
updatedBlockAll(block, answeredQuestions) ==
  [block EXCEPT !.answeredQuestions = answeredQuestions]

\* STEP 4: the block with the questions that have answers only.
updatedBlock(block, answeredQuestions) ==
  [block EXCEPT !.questions = answeredQuestions,
                !.answeredQuestions = answeredQuestions]

blocksRest == <<coreVars, busVars, linkVars, pinVars, miscVars>>

InitBlocks ==
  /\ Quiet
  /\ IdleGateway
  /\ IdleLinks
  /\ IdlePin
  /\ IdleMask
  /\ IdleProject
  /\ bpc = "structure"
  /\ articleBlocks = <<>>
  /\ updatedBlocks = <<>>
  /\ blocksEvent = <<>>
  /\ fresh = <<>>
  /\ before = <<>>

\* STEP 2: the structure is saved as returned and emitted.
StructureSave ==
  /\ bpc = "structure"
  /\ \E types \in Templates, ids \in StructureIds,
        qs \in {<<>>, <<"q1", "q2">>} :
       LET structure ==
             analyzeStructures([k \in 1..MinStructure |->
                                  NewBlock(ids[k], types[k], qs)])
       IN /\ articleBlocks' = structure
          /\ blocksEvent' = structure
  /\ bpc' = "enrich"
  /\ UNCHANGED <<updatedBlocks, fresh, before, blocksRest>>

\* STEP 3: the model returns the blocks with new questions, perhaps without
\* the last one, or nothing usable and the blocks come back as they were.
BlocksSave ==
  /\ bpc = "enrich"
  /\ \E ok \in BOOLEAN, n \in {Len(articleBlocks) - 1, Len(articleBlocks)},
        q1 \in QuestionLists, q2 \in QuestionLists :
       LET returned ==
             [k \in 1..n |->
                [articleBlocks[k] EXCEPT
                   !.questions = IF k % 2 = 1 THEN q1 ELSE q2]]
           enrichedBlocks == IF ok THEN enrichBlockInstructions(returned)
                             ELSE articleBlocks
       IN /\ ~ok => n = Len(articleBlocks) /\ q1 = <<>> /\ q2 = <<>>
          /\ articleBlocks' = enrichedBlocks
          /\ blocksEvent' = enrichedBlocks
  /\ bpc' = "answers"
  /\ UNCHANGED <<updatedBlocks, fresh, before, blocksRest>>

\* STEP 4 begins: testConnection, then the record is read.
AnswersRead ==
  /\ bpc = "answers"
  /\ \E isConnected \in BOOLEAN :
       bpc' = IF isConnected THEN "answers_loop" ELSE "failed"
  /\ fresh' = articleBlocks
  /\ before' = articleBlocks
  /\ updatedBlocks' = <<>>
  /\ UNCHANGED <<articleBlocks, blocksEvent, blocksRest>>

\* STEP 4, one block: every question is searched; found are the questions
\* findAnswer returned an answer for.
AnswersBlock ==
  /\ bpc = "answers_loop"
  /\ Len(updatedBlocks) < Len(fresh)
  /\ LET block == fresh[Len(updatedBlocks) + 1] IN
     IF block.questions = <<>>
     THEN /\ updatedBlocks' = Append(updatedBlocks, block)
          /\ blocksEvent' = blocksEvent
     ELSE \E found \in SUBSET DOMAIN block.questions :
            LET next == Append(updatedBlocks,
                          updatedBlock(block,
                                       Answered(block.questions, found, 1)))
            IN /\ updatedBlocks' = next
               /\ blocksEvent' = next
  /\ UNCHANGED <<bpc, articleBlocks, fresh, before, blocksRest>>

\* STEP 4 ends: the list is saved and emitted.
AnswersSave ==
  /\ bpc = "answers_loop"
  /\ Len(updatedBlocks) = Len(fresh)
  /\ articleBlocks' = updatedBlocks
  /\ blocksEvent' = updatedBlocks
  /\ bpc' = "answers_done"
  /\ UNCHANGED <<updatedBlocks, fresh, before, blocksRest>>

\* STEP 5 begins: the record is read.
WritingRead ==
  /\ bpc \in {"answers_done", "writing_retry"}
  /\ bpc' = "writing_loop"
  /\ updatedBlocks' = <<>>
  /\ fresh' = articleBlocks
  /\ UNCHANGED <<articleBlocks, blocksEvent, before, blocksRest>>

\* STEP 5, one block: it is written, and the list so far is saved and
\* emitted.
WritingBlock ==
  /\ bpc = "writing_loop"
  /\ Len(updatedBlocks) < Len(fresh)
  /\ LET block == fresh[Len(updatedBlocks) + 1]
         next == Append(updatedBlocks, [block EXCEPT !.content = TRUE])
     IN /\ updatedBlocks' = next
        /\ articleBlocks' = next
        /\ blocksEvent' = next
  /\ bpc' = IF Len(updatedBlocks) + 1 = Len(fresh) THEN "done" ELSE bpc
  /\ UNCHANGED <<fresh, before, blocksRest>>

\* STEP 5 throws at a block: the invocation fails, and the queue runs the
\* message again, from the start of the step. One failed attempt is followed:
\* an attempt that read the list as STEP 4 left it.
WritingRetry ==
  /\ bpc = "writing_loop"
  /\ Len(updatedBlocks) < Len(fresh)
  /\ Len(fresh) = Len(before)
  /\ bpc' = "writing_retry"
  /\ UNCHANGED <<articleBlocks, updatedBlocks, blocksEvent, fresh, before,
                 blocksRest>>

NextBlocks ==
  \/ StructureSave
  \/ BlocksSave
  \/ AnswersRead
  \/ AnswersBlock
  \/ AnswersSave
  \/ WritingRead
  \/ WritingBlock
  \/ WritingRetry

SpecBlocks == InitBlocks /\ [][NextBlocks]_vars

(***************************************************************************)
(* SpecLinks: STEP 6 and STEP 7 on the written blocks of one job, for      *)
(* every list of up to MaxUrls link positions. The content of a block is   *)
(* the links whose url it holds: md as a markdown link [anchor](url), raw  *)
(* in any other form.                                                      *)
(***************************************************************************)
Positions == {"intro", "body", "conclusion", "any"}
LinkLists == UNION {[1..n -> Positions] : n \in 1..MaxUrls}

WrittenBlock(id, type) == [id |-> id, type |-> type, md |-> {}, raw |-> {}]

\* The first block of bs whose type is in types and whose id is not in used,
\* as a set of at most one index.
FirstBlock(bs, types, used) ==
  LET ok(b) == b.type \in types /\ b.id \notin used IN
  {k \in DOMAIN bs : ok(bs[k]) /\ \A j \in 1..(k - 1) : ~ok(bs[j])}

\* selectBlocksForLinks, from link k on, with usedBlockIds = used.
RECURSIVE selectBlocksForLinks(_, _, _, _)
selectBlocksForLinks(bs, links, k, used) ==
  IF k > Len(links) THEN <<>>
  ELSE
    LET selected ==
          CASE links[k] = "intro" -> FirstBlock(bs, {"intro"}, {})
            [] links[k] = "conclusion" -> FirstBlock(bs, {"conclusion"}, {})
            [] links[k] = "body" -> FirstBlock(bs, {"h2", "h3"}, used)
            [] OTHER -> FirstBlock(bs,
                 {"intro", "h2", "h3", "conclusion"}, used)
    IN IF selected = {}
       THEN selectBlocksForLinks(bs, links, k + 1, used)
       ELSE LET b == CHOOSE x \in selected : TRUE IN
            <<[linkIndex |-> k, blockId |-> bs[b].id]>>
            \o selectBlocksForLinks(bs, links, k + 1,
                 IF links[k] \in {"body", "any"} THEN used \cup {bs[b].id}
                 ELSE used)

\* The block ids of the selections, each once, in the order they first occur.
RECURSIVE Grouped(_)
Grouped(sel) ==
  IF sel = <<>> THEN <<>>
  ELSE LET rest == Grouped(SubSeq(sel, 1, Len(sel) - 1))
           id == sel[Len(sel)].blockId
       IN IF \E k \in DOMAIN rest : rest[k] = id THEN rest
          ELSE Append(rest, id)

\* The links of linksByBlock.get(blockId).
LinksFor(sel, blockId) ==
  {sel[k].linkIndex : k \in {j \in DOMAIN sel : sel[j].blockId = blockId}}

\* blocks.findIndex(b => b.id === blockId), of an id some block has.
findIndex(bs, blockId) ==
  CHOOSE k \in DOMAIN bs :
    bs[k].id = blockId /\ \A j \in 1..(k - 1) : bs[j].id # blockId

\* The article assembled from the blocks holds the urls their contents hold.
Assembled(bs) == UNION {bs[k].md \cup bs[k].raw : k \in DOMAIN bs}

linksRest == <<coreVars, busVars, blockVars, pinVars, miscVars>>

InitLinks ==
  /\ Quiet
  /\ IdleGateway
  /\ IdleBlocks
  /\ IdlePin
  /\ IdleMask
  /\ IdleProject
  /\ lpc = "links"
  /\ \E types \in Templates, ids \in StructureIds :
       linkBlocks = [k \in 1..MinStructure |-> WrittenBlock(ids[k], types[k])]
  /\ internalLinks \in LinkLists
  /\ todo = <<>>
  /\ localBlocks = <<>>
  /\ articleLinks = {}

\* STEP 6.1 and the grouping of 6.2.
SelectLinks ==
  /\ lpc = "links"
  /\ localBlocks' = linkBlocks
  /\ todo' = selectBlocksForLinks(linkBlocks, internalLinks, 1, {})
  /\ lpc' = "insert"
  /\ UNCHANGED <<linkBlocks, internalLinks, articleLinks, linksRest>>

\* STEP 6.2, one block: the model returns the content with some of the
\* block's links in it, in markdown or not; the urls that are missing are
\* appended as markdown links.
InsertLinksIntoBlock ==
  /\ lpc = "insert"
  /\ Grouped(todo) # <<>>
  /\ LET blockId == Grouped(todo)[1]
         linksForBlock == LinksFor(todo, blockId)
         k == findIndex(localBlocks, blockId)
     IN \E md \in SUBSET linksForBlock :
        \E raw \in SUBSET (linksForBlock \ md) :
          /\ localBlocks' = [localBlocks EXCEPT
               ![k].md = md \cup (linksForBlock \ (md \cup raw)),
               ![k].raw = raw]
          /\ todo' = SelectSeq(todo, LAMBDA x : x.blockId # blockId)
  /\ UNCHANGED <<lpc, linkBlocks, internalLinks, articleLinks, linksRest>>

\* The article is rebuilt, checked (a missing url is only logged) and saved
\* with the blocks.
SaveLinks ==
  /\ lpc = "insert"
  /\ todo = <<>>
  /\ linkBlocks' = localBlocks
  /\ articleLinks' = Assembled(localBlocks)
  /\ lpc' = "review"
  /\ UNCHANGED <<internalLinks, todo, localBlocks, linksRest>>

\* STEP 7.1 and 7.2: the blocks to fix, as chosen by the review.
SelectFixes ==
  /\ lpc = "review"
  /\ localBlocks' = linkBlocks
  /\ \E fix \in SUBSET DOMAIN linkBlocks :
       /\ Cardinality(fix) = 2
       /\ todo' = [k \in 1..2 |->
                     LET x == CHOOSE y \in fix :
                                Cardinality({z \in fix : z < y}) = k - 1
                     IN [linkIndex |-> 0, blockId |-> linkBlocks[x].id]]
  /\ lpc' = "fix"
  /\ UNCHANGED <<linkBlocks, internalLinks, articleLinks, linksRest>>

\* STEP 7.3, one block: the fixed content keeps some of the links; the
\* markdown links that are gone are appended again.
FixBlock ==
  /\ lpc = "fix"
  /\ todo # <<>>
  /\ LET k == findIndex(localBlocks, todo[1].blockId)
         block == localBlocks[k]
         originalUrls == block.md
     IN \E fixedMd \in SUBSET block.md, fixedRaw \in SUBSET block.raw :
          LET missingUrls == originalUrls \ (fixedMd \cup fixedRaw) IN
          localBlocks' = [localBlocks EXCEPT
            ![k].md = fixedMd \cup missingUrls, ![k].raw = fixedRaw]
  /\ todo' = Tail(todo)
  /\ UNCHANGED <<lpc, linkBlocks, internalLinks, articleLinks, linksRest>>

\* STEP 7.4 and the save.
SaveReview ==
  /\ lpc = "fix"
  /\ todo = <<>>
  /\ linkBlocks' = localBlocks
  /\ articleLinks' = Assembled(localBlocks)
  /\ lpc' = "reviewed"
  /\ UNCHANGED <<internalLinks, todo, localBlocks, linksRest>>

NextLinks ==
  \/ SelectLinks
  \/ InsertLinksIntoBlock
  \/ SaveLinks
  \/ SelectFixes
  \/ FixBlock
  \/ SaveReview

SpecLinks == InitLinks /\ [][NextLinks]_vars

(***************************************************************************)
(* SpecPin: verifyPin, with up to MaxPinCalls requests in flight. A        *)
(* handler is interleaved with the others at its awaits: the lookup of the *)
(* block, the update that counts a failure, the update that sets the flag. *)
(***************************************************************************)
MAX_PIN_ATTEMPTS == 5

Ips == {"ipA", "ipB"}
Pairs == Ips \X {Owner}
Callers == 1..MaxPinCalls
Pins == {"none", "wrong", "right"}

\* No PinAttempt record of the pair.
NoAttempt == [exists |-> FALSE, attempts |-> 0, isBlocked |-> FALSE]

PinResponse(code, isBlocked) == [code |-> code, isBlocked |-> isBlocked]
NoPinResponse == PinResponse(0, FALSE)
NoPinRequest == [pc |-> "none", pair |-> <<"none", "none">>, pin |-> "none",
                 late |-> FALSE]

\* The lookup that finds no block.
isIpBlockedNever(pair) == FALSE

\* PinAttempt.findOne({ userId }): the lookup without the address.
isIpBlockedAnyIp(pair) ==
  \E other \in DOMAIN pinAttempts :
    other[2] = pair[2] /\ pinAttempts[other].isBlocked

isIpBlocked(pair) == pinAttempts[pair].isBlocked

\* findOneAndUpdate({ ip, userId }, { $inc: { attempts: 1 } }, { upsert }).
recordFailedPinAttempt(attempt) ==
  [attempt EXCEPT !.exists = TRUE, !.attempts = @ + 1]

\* A reset that leaves the counter as it is.
resetPinAttemptsNone(attempt) == attempt

\* findOneAndUpdate({ ip, userId }, { attempts: 0 }), without upsert.
resetPinAttempts(attempt) ==
  IF attempt.exists THEN [attempt EXCEPT !.attempts = 0] ELSE attempt

Respond(c, json) ==
  /\ pinResp' = [pinResp EXCEPT ![c] = json]
  /\ pinReq' = [pinReq EXCEPT ![c].pc = "none"]

pinRest == <<coreVars, busVars, blockVars, linkVars, miscVars, keyVars>>

NoUpdate == [pair |-> <<"none", "none">>, service |-> "none", code |-> 0,
             blocked |-> FALSE, changed |-> FALSE]

\* No record of any of the addresses, no request of any of the callers.
InitPinOf(pairs, callers) ==
  /\ Quiet
  /\ IdleGateway
  /\ IdleBlocks
  /\ IdleLinks
  /\ IdleMask
  /\ IdleProject
  /\ pinAttempts = [pair \in pairs |-> NoAttempt]
  /\ pinReq = [c \in 1..callers |-> NoPinRequest]
  /\ pinResp = [c \in 1..callers |-> NoPinResponse]
  /\ pinHist = [pair \in pairs |-> [run |-> 0, peak |-> 0, guesses |-> 0]]
  /\ userPin \in BOOLEAN
  /\ storedKeys = [service \in Keys |-> "old"]
  /\ updResp = NoUpdate

InitPin == InitPinOf(Pairs, MaxPinCalls)

\* The request arrives, authenticated.
verifyPinBegin(c, pair, pin) ==
  /\ pinReq[c].pc = "none"
  /\ pinReq' = [pinReq EXCEPT ![c] =
       [pc |-> "check", pair |-> pair, pin |-> pin,
        late |-> pinAttempts[pair].isBlocked]]
  /\ pinResp' = [pinResp EXCEPT ![c] = NoPinResponse]
  /\ UNCHANGED <<pinAttempts, pinHist, userPin, pinRest>>

\* The check of the block, then of the PIN of the body and of the user.
verifyPinCheck(c) ==
  /\ pinReq[c].pc = "check"
  /\ IF isIpBlocked(pinReq[c].pair) THEN Respond(c, PinResponse(403, TRUE))
     ELSE IF pinReq[c].pin = "none" \/ ~userPin
     THEN Respond(c, PinResponse(400, FALSE))
     ELSE /\ pinReq' = [pinReq EXCEPT ![c].pc = "compare"]
          /\ pinResp' = pinResp
  /\ UNCHANGED <<pinAttempts, pinHist, userPin, pinRest>>

\* comparePin fails: the failure is counted.
verifyPinFailed(c) ==
  /\ pinReq[c].pc = "compare"
  /\ pinReq[c].pin = "wrong"
  /\ LET pair == pinReq[c].pair
         attempt == recordFailedPinAttempt(pinAttempts[pair])
         run == IF pinHist[pair].run < MAX_PIN_ATTEMPTS
                THEN pinHist[pair].run + 1 ELSE pinHist[pair].run
         blocked == attempt.attempts >= MAX_PIN_ATTEMPTS /\ ~attempt.isBlocked
     IN /\ pinAttempts' = [pinAttempts EXCEPT ![pair] = attempt]
        /\ pinHist' = [pinHist EXCEPT ![pair] =
             [run |-> run,
              peak |-> IF run > @.peak THEN run ELSE @.peak,
              guesses |-> IF ~blocked /\ @.guesses <= MAX_PIN_ATTEMPTS
                          THEN @.guesses + 1 ELSE @.guesses]]
        /\ IF blocked
           THEN /\ pinReq' = [pinReq EXCEPT ![c].pc = "block"]
                /\ pinResp' = pinResp
           ELSE Respond(c, PinResponse(403, FALSE))
  /\ UNCHANGED <<userPin, pinRest>>

\* The flag is set and the caller is told.
verifyPinBlock(c) ==
  /\ pinReq[c].pc = "block"
  /\ pinAttempts' = [pinAttempts EXCEPT ![pinReq[c].pair].isBlocked = TRUE]
  /\ Respond(c, PinResponse(403, TRUE))
  /\ UNCHANGED <<pinHist, userPin, pinRest>>

\* comparePin succeeds: the counter is reset.
verifyPinSuccess(c) ==
  /\ pinReq[c].pc = "compare"
  /\ pinReq[c].pin = "right"
  /\ LET pair == pinReq[c].pair IN
     /\ pinAttempts' = [pinAttempts EXCEPT ![pair] = resetPinAttempts(@)]
     /\ pinHist' = [pinHist EXCEPT ![pair].run = 0, ![pair].guesses = 0]
  /\ Respond(c, PinResponse(200, FALSE))
  /\ UNCHANGED <<userPin, pinRest>>

NextPin ==
  \/ \E c \in DOMAIN pinReq, pair \in DOMAIN pinAttempts, pin \in Pins :
       verifyPinBegin(c, pair, pin)
  \/ \E c \in DOMAIN pinReq : verifyPinCheck(c)
  \/ \E c \in DOMAIN pinReq : verifyPinFailed(c)
  \/ \E c \in DOMAIN pinReq : verifyPinBlock(c)
  \/ \E c \in DOMAIN pinReq : verifyPinSuccess(c)

SpecPin == InitPin /\ [][NextPin]_vars

(***************************************************************************)
(* SpecPinRace: verifyPin with MaxRaceCalls requests of one address in     *)
(* flight.                                                                 *)
(***************************************************************************)
InitPinRace == InitPinOf({<<"ipA", Owner>>}, MaxRaceCalls)

SpecPinRace == InitPinRace /\ [][NextPin]_vars

(***************************************************************************)
(* SpecKeys: verifyPin and the updates of the credentials that ask for the *)
(* PIN: updateOpenRouter, updateSupabase and updateFirecrawl.              *)
(***************************************************************************)
InitKeys == InitPinOf({<<"ipA", Owner>>}, 1)

\* PUT /api/settings/api-keys/<service>, from the address of pair, with the
\* credential of the body present or not.
updateApiKey(pair, service, apiKey, pin) ==
  LET code == IF ~apiKey THEN 400
              ELSE IF userPin /\ pin # "right" THEN 403
              ELSE 200
  IN /\ storedKeys' = IF code = 200
                      THEN [storedKeys EXCEPT ![service] = "new"]
                      ELSE storedKeys
     /\ updResp' = [pair |-> pair, service |-> service, code |-> code,
                    blocked |-> pinAttempts[pair].isBlocked,
                    changed |-> code = 200]
     /\ UNCHANGED <<pinAttempts, pinReq, pinResp, pinHist, userPin,
                    coreVars, busVars, blockVars, linkVars, miscVars>>

NextKeys ==
  \/ NextPin
  \/ \E pair \in DOMAIN pinAttempts, service \in Keys, apiKey \in BOOLEAN,
        pin \in Pins : updateApiKey(pair, service, apiKey, pin)

SpecKeys == InitKeys /\ [][NextKeys]_vars

(***************************************************************************)
(* SpecMask: maskSensitiveData on every string of up to MaxShort           *)
(* characters and on strings of one character of up to MaxLong.            *)
(***************************************************************************)
MaskLimit == 20
Visible == 4
Chars == {"a", "b"}

Stars(n) == [k \in 1..n |-> "*"]

\* The function without the branch of the short strings.
maskSensitiveDataLong(value, visibleStart, visibleEnd) ==
  LET L == Len(value)
      hidden == IF L - visibleStart - visibleEnd > 0
                THEN L - visibleStart - visibleEnd ELSE 0
      from == IF L - visibleEnd + 1 > 1 THEN L - visibleEnd + 1 ELSE 1
  IN SubSeq(value, 1, IF visibleStart < L THEN visibleStart ELSE L)
     \o Stars(IF hidden < MaskLimit THEN hidden ELSE MaskLimit)
     \o SubSeq(value, from, L)

maskSensitiveData(value, visibleStart, visibleEnd) ==
  LET L == Len(value) IN
  IF value = <<>> THEN <<>>
  ELSE IF L <= visibleStart + visibleEnd THEN Stars(L)
  ELSE LET hidden == L - visibleStart - visibleEnd IN
       SubSeq(value, 1, visibleStart)
       \o Stars(IF hidden < MaskLimit THEN hidden ELSE MaskLimit)
       \o SubSeq(value, L - visibleEnd + 1, L)

miscRest == <<coreVars, busVars, blockVars, linkVars, pinVars>>

InitMask ==
  /\ Quiet
  /\ IdleGateway
  /\ IdleBlocks
  /\ IdleLinks
  /\ IdlePin
  /\ IdleProject
  /\ \E value \in UNION {[1..n -> Chars] : n \in 0..MaxShort}
                  \cup {[k \in 1..n |-> "a"] : n \in MaxShort..MaxLong} :
       mask = [value |-> value, result |-> <<>>, done |-> FALSE]

\* maskSensitiveData(apiKey), with the defaults of the two lengths.
MaskKey ==
  /\ ~mask.done
  /\ mask' = [mask EXCEPT
       !.result = maskSensitiveData(mask.value, Visible, Visible),
       !.done = TRUE]
  /\ UNCHANGED <<project, createReq, miscRest>>

NextMask == MaskKey

SpecMask == InitMask /\ [][NextMask]_vars

(***************************************************************************)
(* SpecProject: deleteProject against MaxCreates createGeneration requests *)
(* for the project. Each handler is interleaved with the others at its     *)
(* awaits.                                                                 *)
(***************************************************************************)
NoCreate == [pc |-> "none", by |-> "none", valid |-> FALSE, code |-> 0]

InitProject ==
  /\ Quiet
  /\ IdleGateway
  /\ IdleBlocks
  /\ IdleLinks
  /\ IdlePin
  /\ IdleMask
  /\ project = [exists |-> TRUE, gens |-> 0, pc |-> "none", code |-> 0]
  /\ createReq = [c \in 1..MaxCreates |-> NoCreate]

\* POST /api/generations arrives, with a main keyword or without.
CreateBegin(c, by, valid) ==
  /\ createReq[c].pc = "none"
  /\ createReq' = [createReq EXCEPT ![c] =
       [pc |-> "find", by |-> by, valid |-> valid, code |-> 0]]
  /\ UNCHANGED <<project, mask, miscRest>>

\* Project.findOne({ _id: projectId, userId }) and the checks of the body.
CreateFind(c) ==
  /\ createReq[c].pc = "find"
  /\ createReq' = [createReq EXCEPT ![c] =
       IF ~(project.exists /\ createReq[c].by = Owner)
       THEN [@ EXCEPT !.pc = "none", !.code = 404]
       ELSE IF ~createReq[c].valid
       THEN [@ EXCEPT !.pc = "none", !.code = 400]
       ELSE [@ EXCEPT !.pc = "create"]]
  /\ UNCHANGED <<project, mask, miscRest>>

\* Generation.create({ projectId, ... }), queueGeneration and the response.
CreateSave(c) ==
  /\ createReq[c].pc = "create"
  /\ project.gens < MaxGens
  /\ project' = [project EXCEPT !.gens = @ + 1]
  /\ createReq' = [createReq EXCEPT ![c].pc = "none", ![c].code = 201]
  /\ UNCHANGED <<mask, miscRest>>

\* Project.findOneAndDelete({ _id: id, userId }).
DeleteFind(by) ==
  /\ project.pc \in {"none", "missing"}
  /\ project' =
       IF project.exists /\ by = Owner
       THEN [project EXCEPT !.exists = FALSE, !.pc = "deleting", !.code = 0]
       ELSE [project EXCEPT !.pc = "missing", !.code = 404]
  /\ UNCHANGED <<createReq, mask, miscRest>>

\* Generation.deleteMany({ projectId: id }) and the response.
DeleteMany ==
  /\ project.pc = "deleting"
  /\ project' = [project EXCEPT !.gens = 0, !.pc = "done", !.code = 200]
  /\ UNCHANGED <<createReq, mask, miscRest>>

NextProject ==
  \/ \E c \in DOMAIN createReq, by \in Principals, valid \in BOOLEAN :
       CreateBegin(c, by, valid)
  \/ \E c \in DOMAIN createReq : CreateFind(c)
  \/ \E c \in DOMAIN createReq : CreateSave(c)
  \/ \E by \in Principals : DeleteFind(by)
  \/ DeleteMany

SpecProject == InitProject /\ [][NextProject]_vars

(***************************************************************************)
(* Properties.                                                             *)
(***************************************************************************)
Range(seq) == {seq[k] : k \in 1..Len(seq)}

IsPrefix(a, b) == Len(a) <= Len(b) /\ \A k \in 1..Len(a) : a[k] = b[k]

Finished(w) == inv[w].pc \in {"returned", "threw"}

PauseOf(s) ==
  CASE s = 1 -> PAUSED_AFTER_SERP
    [] s = 2 -> PAUSED_AFTER_STRUCTURE
    [] s = 3 -> PAUSED_AFTER_BLOCKS
    [] s = 4 -> PAUSED_AFTER_ANSWERS
    [] s = 5 -> PAUSED_AFTER_WRITING
    [] s = 7 -> PAUSED_AFTER_REVIEW
    [] OTHER -> "none"

\* The skip-table as specified: continueFrom -> stages not executed.
SkipTable(cf) ==
  CASE cf = PAUSED_AFTER_SERP -> {1}
    [] cf = PAUSED_AFTER_STRUCTURE -> 1..2
    [] cf = PAUSED_AFTER_BLOCKS -> 1..3
    [] cf = PAUSED_AFTER_ANSWERS -> 1..4
    [] cf = PAUSED_AFTER_WRITING -> 1..5
    [] cf = PAUSED_AFTER_REVIEW -> 1..6
    [] OTHER -> {}

\* C1: an invocation with continueFrom = P executes no stage the skip-table
\* lists for P; continuing from paused_after_review executes no stage at
\* all, link insertion (stage 6) included.
C1_SkipTable ==
  \A w \in Slots :
    inv[w].pc # "idle" => Range(inv[w].ran) \cap SkipTable(inv[w].cf) = {}

SpecStatusSeq ==
  <<QUEUED, PROCESSING, PARSING_SERP, PAUSED_AFTER_SERP, ANALYZING_STRUCTURE,
    PAUSED_AFTER_STRUCTURE, ENRICHING_BLOCKS, PAUSED_AFTER_BLOCKS,
    ANSWERING_QUESTIONS, PAUSED_AFTER_ANSWERS, WRITING_ARTICLE,
    PAUSED_AFTER_WRITING, REVIEWING_ARTICLE, PAUSED_AFTER_REVIEW, COMPLETED>>

LinkedStatusSeq ==
  <<QUEUED, PROCESSING, PARSING_SERP, PAUSED_AFTER_SERP, ANALYZING_STRUCTURE,
    PAUSED_AFTER_STRUCTURE, ENRICHING_BLOCKS, PAUSED_AFTER_BLOCKS,
    ANSWERING_QUESTIONS, PAUSED_AFTER_ANSWERS, WRITING_ARTICLE,
    PAUSED_AFTER_WRITING, INSERTING_LINKS, REVIEWING_ARTICLE,
    PAUSED_AFTER_REVIEW, INSERTING_LINKS, COMPLETED>>

Scenario2 == clean /\ ~continuousMode /\ config.internalLinks = 1

C4_Terminal ==
  [][(status \in {COMPLETED, FAILED}) => (status' = status)]_vars

\* What one continuous run executes and leaves behind.
ContinuousStages ==
  IF config.internalLinks = 0 THEN <<1, 2, 3, 4, 5, 7>>
  ELSE <<1, 2, 3, 4, 5, 6, 7>>

ContinuousBlocks ==
  IF config.internalLinks = 0
  THEN <<"structure", "enrich", "answers", "write", "review">>
  ELSE <<"structure", "enrich", "answers", "write", "links", "review">>

\* C5: a job paused and continued until completed has executed the same
\* stages, as often and in the same order, as one continuous run, and ends
\* with the same blocks, article and SEO fields (no failure, deterministic
\* providers).
C5_PauseResumeFidelity ==
  (clean /\ status = COMPLETED)
    => /\ stagesRun = ContinuousStages
       /\ blocks = ContinuousBlocks
       /\ article = ContinuousBlocks
       /\ seo = ContinuousBlocks

StageOfCall(c) ==
  CASE c \in {"search", "scrape"} -> 1
    [] c = "analyze" -> 2
    [] c = "enrich" -> 3
    [] c \in {"connect", "findAnswer"} -> 4
    [] c = "write" -> 5
    [] c = "insertLinks" -> 6
    [] OTHER -> 7

ProviderErrors ==
  {"Search failed", "Structure analysis failed",
   "Failed to connect to Supabase", "Content generation failed"}

\* C7: a failed provider call in any of the stages 1, 2, 3, 4, 5, 7 aborts
\* the invocation with status failed; only in stage 6 does a provider
\* failure leave the job running.
C7_ProviderFailureAborts ==
  \A w \in Slots :
    (Finished(w) /\ \E c \in inv[w].fails : StageOfCall(c) # 6)
      => At(w, "threw") /\ inv[w].last = FAILED

\* C7 as amended: a failure of the search call of stage 1, of the
\* structure analysis of stage 2, of the connection test of stage 4 or of
\* block writing in stage 5 aborts the invocation with status failed; a
\* failed scrape (stage 1), enrichment (stage 3), question search (stage 4),
\* link insertion (stage 6) or review call (stage 7) leaves the job running.
C7_FatalProviderFailureAborts ==
  \A w \in Slots :
    /\ (Finished(w) /\ inv[w].fails \cap FatalCalls # {})
         => At(w, "threw") /\ inv[w].last = FAILED
    /\ (inv[w].pc \in {"catch", "catch_emit", "threw"}
          /\ inv[w].fails \cap FatalCalls = {})
         => inv[w].err \notin ProviderErrors

C7_Witness ==
  \E w \in Slots :
    /\ At(w, "threw") /\ "write" \in inv[w].fails /\ status = FAILED

\* C8: a message whose processing throws on every attempt is processed
\* exactly three times and never dispatched after the third failure; a
\* message whose processing returns success at once is processed exactly
\* once; a settled message is not dispatched again.
C8_ThreeAttempts ==
  [][\A m \in 1..Len(msgs) :
       /\ (msgs[m].state = "active" /\ msgs'[m].state = "failed")
            => msgs[m].runs = 3 /\ msgs[m].throws = 2
       /\ (msgs[m].state = "active" /\ msgs'[m].state = "completed")
            => msgs[m].runs = msgs[m].throws + 1
       /\ msgs[m].state = "waiting" => msgs[m].runs < 3
       /\ (msgs[m].state \in {"completed", "failed"})
            => (msgs'[m] = msgs[m])]_vars

C8_Witness ==
  \E w \in Slots :
    At(w, "threw") /\ msgs[inv[w].m].runs = 3 /\ msgs[inv[w].m].throws = 2

RECURSIVE Sum(_, _)
Sum(f, S) ==
  IF S = {} THEN 0
  ELSE LET x == CHOOSE y \in S : TRUE IN f[x] + Sum(f, S \ {x})

\* C9: the invocations in flight in one worker process never exceed
\* workerConcurrency.
C9_PerWorkerLimit == \A p \in Workers : inflight[p] <= workerConcurrency

\* C10: the invocations in flight over all worker processes never exceed
\* the configured maximum of concurrent generations.
C10_ClusterLimit == Sum(inflight, Workers) <= maxConcurrentGenerations

\* C13: within one invocation the progress values written to the record
\* never decrease, the progress written with a pause transition included.
C13_ProgressMonotone ==
  \A w \in Slots :
    LET ps == wrote[w].prs IN
    \A a, b \in DOMAIN ps : a < b => ps[a] <= ps[b]

\* C14: within one invocation a status that was left is never written
\* again, the writes of the SERP progress callbacks included (failed is
\* written at most once, after any active status).
C14_NoStatusReentry ==
  \A w \in Slots :
    LET ss == wrote[w].sts IN
    \A a, b \in DOMAIN ss : a # b => ss[a] # ss[b]

\* What the job has stored after stage s ran without a failure.
Produced(s) ==
  CASE s = 1 -> serp = [serpResults |-> fetched, averageWordCount |-> TRUE]
    [] s = 2 -> blocks = <<"structure">>
    [] s = 3 -> blocks = <<"structure", "enrich">>
    [] s = 4 -> blocks = <<"structure", "enrich", "answers">>
    [] s = 5 -> /\ blocks = <<"structure", "enrich", "answers", "write">>
                /\ article = blocks
    [] OTHER -> /\ blocks # <<>> /\ Last(blocks) = "review"
                /\ article = blocks /\ seo = blocks

\* C18: whenever the persisted status is paused_after_X, what stage X
\* produced is persisted: all SERP entries with the average word count, the
\* block list, the enriched blocks, the answers, the contents and the
\* article, the reviewed article with its SEO fields (no failed call).
C18_ArtifactsBeforePause ==
  clean => \A s \in {1, 2, 3, 4, 5, 7} : status = PauseOf(s) => Produced(s)

\* C20: the timestamps of the stored log are non-decreasing in stored
\* order, the entries pushed by the SERP progress callbacks and by the API
\* on continue included.
C20_LogTimestampsOrdered ==
  \A a, b \in DOMAIN log : a < b => log[a].timestamp <= log[b].timestamp

\* C19: the log is append-only: every step of a worker, of the failure
\* handling, of a continue request and of an artifact update leaves the
\* stored entries unchanged and in place; the old log is a prefix of the new.
C19_LogAppendOnly == [][IsPrefix(log, log')]_vars

C19_Witness ==
  /\ log[1].message = "Generation created and queued"
  /\ \E a, b \in DOMAIN log :
       /\ a < b
       /\ log[a].message = "Continuing generation"
       /\ log[b].message = "Generation failed"

\* C15: for a job in continuous mode no invocation writes (persists and
\* publishes) a paused status, and an initial invocation in which no stage
\* fails runs the stages 1 to 7 in order (stage 6 when the job has internal
\* links) and ends with status completed and progress 100.
C15_ContinuousRun ==
  config.continuousMode =>
    /\ status \notin pausedStates
    /\ \A w \in Slots :
         /\ Range(wrote[w].sts) \cap pausedStates = {}
         /\ (At(w, "returned") /\ inv[w].cf = NoContinue /\ inv[w].raised = {})
              => /\ inv[w].ran = ContinuousStages
                 /\ Last(wrote[w].sts) = COMPLETED
                 /\ status = COMPLETED /\ progress = 100

C15_Witness ==
  \E w \in Slots :
    /\ config.continuousMode /\ At(w, "returned")
    /\ inv[w].cf = NoContinue /\ inv[w].raised = {}
    /\ inv[w].ran = <<1, 2, 3, 4, 5, 6, 7>>
    /\ status = COMPLETED /\ progress = 100

\* No message of the job is waiting or running.
QueueDrained == \A m \in DOMAIN msgs : msgs[m].state \in {"completed", "failed"}

\* C16: a continuous job whose structure analysis call fails on every
\* attempt ends with status failed and a non-empty error, its log holds an
\* error entry 'Structure analysis failed', and it is never completed (the
\* completed status is written where generation:completed is published).
C16_AnalysisOutage ==
  (config.continuousMode /\ down = "analyze" /\ "openRouter" \in apiKeys)
    => /\ status # COMPLETED
       /\ \A w \in Slots : COMPLETED \notin Range(wrote[w].sts)
       /\ QueueDrained
            => /\ status = FAILED /\ error # ""
               /\ \E k \in DOMAIN log :
                    /\ log[k].level = "error"
                    /\ log[k].message = "Structure analysis failed"

C16_Witness ==
  /\ config.continuousMode /\ down = "analyze" /\ QueueDrained
  /\ status = FAILED /\ error = "Structure analysis failed"
  /\ Cardinality({k \in DOMAIN log :
                    log[k].message = "Structure analysis failed"}) = Attempts

\* C17: an error thrown inside link insertion (stage 6) is not rethrown and
\* does not set the job to failed: the invocation logs it and goes on to
\* stage 7 with the article and the blocks as they were persisted before.
C17_LinkFailureNotFatal ==
  [][\A w \in Slots :
       (At(w, "links_insert") /\ 6 \in inv'[w].raised)
         => /\ status' = status /\ status' # FAILED
            /\ blocks' = blocks /\ article' = article
            /\ Last(log').message = "some links may not have been inserted"
            /\ inv'[w].pc = StagePc(7)]_vars

(***************************************************************************)
(* C11: a continue request decided while the persisted status is not one   *)
(* of the six pause states is answered 400, and the deciding step adds no  *)
(* queue message, appends no log entry and leaves the job record as it is. *)
(***************************************************************************)
C11_NotPausedIs400 ==
  [][(/\ status \notin pausedStates
      /\ req'.pc = "none"
      /\ \/ req.pc = "checked"
         \/ req.pc = "none" /\ dupCount' # dupCount)
     => (/\ req'.code = 400
         /\ msgs' = msgs
         /\ log' = log
         /\ jobVars' = jobVars)]_vars

(***************************************************************************)
(* C12: a get, logs, continue or delete request of a principal who does    *)
(* not own the job is answered 404 with the answer a missing id gets, and  *)
(* it changes neither the job record, nor its log, nor the queue, and      *)
(* does not delete the record.                                             *)
(***************************************************************************)
C12_ForeignIsMissing ==
  [][(resp' # resp /\ resp'.by # Owner)
     => (/\ resp'.answer.code = 404
         /\ resp'.answer = answer(resp'.by, "missing", "")
         /\ jobVars' = jobVars
         /\ log' = log
         /\ msgs' = msgs
         /\ deleted' = deleted)]_vars

C12_Witness ==
  /\ resp = Response("delete", "B", Job, NotFound)
  /\ ~deleted
  /\ status \in pausedStates
  /\ AtRest

(***************************************************************************)
(* C21: every entry of the stored log but the one the record was created   *)
(* with was published as a generation:log event carrying that entry, and   *)
(* every entry published is in the stored log.                             *)
(***************************************************************************)
C21_LogEntriesPublished ==
  /\ \A k \in 2..Len(log) : \E j \in DOMAIN logEvents : logEvents[j] = log[k]
  /\ \A j \in DOMAIN logEvents : \E k \in DOMAIN log : log[k] = logEvents[j]

(***************************************************************************)
(* C22: a step that changes the persisted status publishes a               *)
(* generation:status event that carries the new status and the persisted   *)
(* progress.                                                               *)
(***************************************************************************)
C22_StatusWritePublished ==
  [][(status' # status)
     => (statusEvent' = [status |-> status', progress |-> progress'])]_vars

(***************************************************************************)
(* C23: an event a worker published once is written at most once to each   *)
(* client session, whatever the number of API processes.                   *)
(***************************************************************************)
C23_AtMostOnce ==
  \A c \in Sessions : \A i, j \in DOMAIN delivered[c] :
    delivered[c][i].id = delivered[c][j].id => i = j

(***************************************************************************)
(* C24: an event is written to a session only while the session is         *)
(* connected, having presented a valid token, and is joined to the room    *)
(* of the event.                                                           *)
(***************************************************************************)
C24_OnlyJoinedSessions ==
  [][\A c \in Sessions :
       (delivered'[c] # delivered[c])
       => (/\ sess[c].state = "connected"
           /\ sess[c].token = "valid"
           /\ Last(delivered'[c]).room \in sess[c].rooms)]_vars

\* Two events of one room: a session that left the room after the first got
\* the first only, while another session got the second.
C24_Witness ==
  /\ \A p \in Procs : bus[p] = <<>> /\ adapter[p] = <<>>
  /\ \E c, d \in Sessions :
       /\ c # d
       /\ sess[d].state = "connected" /\ sess[d].rooms = {}
       /\ delivered[d] # <<>>
       /\ \A k \in DOMAIN delivered[d] : delivered[d][k].id = 1
       /\ \E k \in DOMAIN delivered[c] :
            /\ delivered[c][k].id = 2
            /\ delivered[c][k].room = delivered[d][1].room

(***************************************************************************)
(* C25: each generation:blocks event of a job carries every block id the   *)
(* event before it carried.                                                *)
(***************************************************************************)
C25_BlocksNeverShrink ==
  [][(blocksEvent # <<>> /\ blocksEvent' # blocksEvent)
     => (BlockIds(blocksEvent) \subseteq BlockIds(blocksEvent'))]_vars

(***************************************************************************)
(* C26: once STEP 4 has saved its list, every block's answered texts are   *)
(* among the questions the block had when the step read it, and the        *)
(* questions it keeps are exactly the answered texts.                      *)
(***************************************************************************)
C26_QuestionPruning ==
  bpc = "answers_done"
  => /\ Len(articleBlocks) = Len(before)
     /\ \A k \in DOMAIN articleBlocks :
          /\ Texts(articleBlocks[k].answeredQuestions)
               \subseteq Texts(before[k].questions)
          /\ Texts(articleBlocks[k].questions)
               = Texts(articleBlocks[k].answeredQuestions)

\* One block kept one of its two questions, another lost all it had.
C26_Witness ==
  /\ bpc = "answers_done"
  /\ \E k, j \in DOMAIN articleBlocks :
       /\ before[k].questions = <<"q1", "q2">>
       /\ articleBlocks[k].questions = <<"q2">>
       /\ before[j].questions # <<>>
       /\ articleBlocks[j].questions = <<>>

(***************************************************************************)
(* C27: the ids of the persisted block list are distinct.                  *)
(***************************************************************************)
C27_BlockIdsDistinct ==
  Cardinality(BlockIds(articleBlocks)) = Len(articleBlocks)

(***************************************************************************)
(* C28: once STEP 6 has saved the article, and again once STEP 7 has,      *)
(* the url of every internal link of the job is in the persisted article.  *)
(***************************************************************************)
C28_LinkIntegrity ==
  lpc \in {"review", "fix", "reviewed"}
  => articleLinks = DOMAIN internalLinks

(***************************************************************************)
(* C29: for every (ip, userId), once five failures have been counted with  *)
(* no success in between and the calls that counted them have answered,    *)
(* the blocked flag is set; every verifyPin call of the pair that arrives  *)
(* when the flag is set is answered 403 with isBlocked, whatever its PIN;  *)
(* and no step clears the flag.                                            *)
(***************************************************************************)
C29_BlockedForGood ==
  [][\A pair \in Pairs :
       /\ (/\ pinHist'[pair].run >= MAX_PIN_ATTEMPTS
           /\ \A c \in Callers :
                ~(pinReq'[c].pc = "block" /\ pinReq'[c].pair = pair))
          => pinAttempts'[pair].isBlocked
       /\ pinAttempts[pair].isBlocked => pinAttempts'[pair].isBlocked
       /\ \A c \in Callers :
            (/\ pinReq[c].pair = pair
             /\ pinReq[c].late
             /\ pinReq[c].pc # "none"
             /\ pinReq'[c].pc = "none")
            => pinResp'[c] = PinResponse(403, TRUE)]_vars

C29_Witness ==
  \E c \in Callers :
    /\ pinResp[c] = PinResponse(403, TRUE)
    /\ pinReq[c].pc = "none"
    /\ pinReq[c].pin = "right"
    /\ pinReq[c].late
    /\ pinHist[pinReq[c].pair].run >= MAX_PIN_ATTEMPTS

(***************************************************************************)
(* C30: a verifyPin call that succeeds leaves the counter of its pair at   *)
(* zero, and the blocked flag of a pair is set only when five failures     *)
(* have been counted for it with no success in between.                    *)
(***************************************************************************)
C30_SuccessResets ==
  [][\A pair \in Pairs :
       /\ (\E c \in Callers :
             /\ pinReq[c].pair = pair
             /\ pinReq[c].pc = "compare"
             /\ pinResp'[c].code = 200)
          => pinAttempts'[pair].attempts = 0
       /\ pinAttempts'[pair].isBlocked
          => pinHist'[pair].peak >= MAX_PIN_ATTEMPTS]_vars

C30_Witness ==
  \E pair \in Pairs, c \in Callers :
    /\ pinResp[c].code = 200
    /\ pinAttempts[pair].exists
    /\ pinAttempts[pair].attempts = 0
    /\ pinHist[pair].peak = MAX_PIN_ATTEMPTS - 1
    /\ pinHist[pair].run = 0
    /\ ~pinAttempts[pair].isBlocked

(***************************************************************************)
(* C31: the PinAttempt record of a pair changes only in a step of a call   *)
(* of that pair, and a call of a pair whose own record is not blocked      *)
(* passes the check and, with the right PIN, succeeds, whatever the        *)
(* records of the other addresses hold.                                    *)
(***************************************************************************)
C31_PerAddress ==
  [][/\ \A pair \in Pairs :
          pinAttempts'[pair] # pinAttempts[pair]
          => \E c \in Callers :
               /\ pinReq[c].pair = pair
               /\ pinReq[c].pc \in {"compare", "block"}
               /\ pinReq'[c].pc # pinReq[c].pc
     /\ \A c \in Callers :
          /\ (/\ pinReq[c].pc = "check"
              /\ pinReq'[c].pc # "check"
              /\ ~pinAttempts[pinReq[c].pair].isBlocked
              /\ pinReq[c].pin = "right"
              /\ userPin)
             => pinReq'[c].pc = "compare"
          /\ (/\ pinReq[c].pc = "compare"
              /\ pinReq'[c].pc # "compare"
              /\ pinReq[c].pin = "right")
             => pinResp'[c] = PinResponse(200, FALSE)]_vars

C31_Witness ==
  \E c \in Callers, other \in Pairs :
    /\ pinReq[c].pc = "none"
    /\ pinReq[c].pair # other
    /\ pinReq[c].pair[2] = other[2]
    /\ pinResp[c] = PinResponse(200, FALSE)
    /\ pinAttempts[other].isBlocked
    /\ pinAttempts[other].attempts >= MAX_PIN_ATTEMPTS
    /\ ~pinAttempts[pinReq[c].pair].isBlocked

(***************************************************************************)
(* C37: for every address, the wrong PINs that verifyPin has compared and  *)
(* answered without the blocked signal since the last success are at most  *)
(* five, however the requests of the address interleave.                   *)
(***************************************************************************)
C37_GuessesBounded ==
  \A pair \in DOMAIN pinHist : pinHist[pair].guesses <= MAX_PIN_ATTEMPTS

(***************************************************************************)
(* C38: an update of a credential that arrives from an address that is     *)
(* blocked is answered 403 and leaves the stored credentials as they were, *)
(* whatever PIN it carries.                                                *)
(***************************************************************************)
C38_BlockedCannotUpdate ==
  updResp.blocked => updResp.code = 403 /\ ~updResp.changed

(***************************************************************************)
(* C32 as stated: the result keeps the first min(4, L) and the last        *)
(* min(4, L) characters of the string, every other character of the        *)
(* result is '*', and those are at most 20.                                *)
(***************************************************************************)
C32_KeepsEnds ==
  mask.done =>
    LET L == Len(mask.value)
        R == Len(mask.result)
        n == IF L < Visible THEN L ELSE Visible
    IN /\ R >= n
       /\ SubSeq(mask.result, 1, n) = SubSeq(mask.value, 1, n)
       /\ SubSeq(mask.result, R - n + 1, R) = SubSeq(mask.value, L - n + 1, L)
       /\ \A k \in (n + 1)..(R - n) : mask.result[k] = "*"
       /\ R - 2 * n <= MaskLimit

(***************************************************************************)
(* C32, amended: a string of more than 8 characters is masked to its first *)
(* 4 characters, min(20, L - 8) '*', and its last 4 characters; a string   *)
(* of at most 8 characters is masked to L '*'.                             *)
(***************************************************************************)
C32_MaskedForm ==
  mask.done =>
    LET L == Len(mask.value)
        R == Len(mask.result)
    IN IF L <= 2 * Visible
       THEN mask.result = Stars(L)
       ELSE /\ R = 2 * Visible
                   + (IF L - 2 * Visible < MaskLimit THEN L - 2 * Visible
                      ELSE MaskLimit)
            /\ SubSeq(mask.result, 1, Visible) = SubSeq(mask.value, 1, Visible)
            /\ SubSeq(mask.result, R - Visible + 1, R)
               = SubSeq(mask.value, L - Visible + 1, L)
            /\ \A k \in (Visible + 1)..(R - Visible) : mask.result[k] = "*"

C32_Witness ==
  /\ mask.done
  /\ Len(mask.value) = MaxLong
  /\ Len(mask.result) = 2 * Visible + MaskLimit

(***************************************************************************)
(* C39: once deleteProject has answered, no job record references the      *)
(* project.                                                                *)
(***************************************************************************)
C39_NoOrphans ==
  project.pc = "done" => project.gens = 0

(***************************************************************************)
(* C40: in the selections of selectBlocksForLinks, the block an intro link *)
(* is assigned to is the intro block and the block a conclusion link is    *)
(* assigned to is the conclusion block; no two links of position body or   *)
(* any are assigned to the same block; the block of a body link is an h2   *)
(* or h3 block and the block of an any link is neither h1 nor faq; and a   *)
(* body link is left without a block only when every h2 and h3 block has   *)
(* a link of position body or any.                                         *)
(***************************************************************************)
C40_Selections ==
  (lpc = "insert" /\ Assembled(localBlocks) = {}) =>
    LET assigned(k) == linkBlocks[findIndex(linkBlocks, todo[k].blockId)]
        position(k) == internalLinks[todo[k].linkIndex]
        spread == {k \in DOMAIN todo : position(k) \in {"body", "any"}}
    IN /\ \A k \in DOMAIN todo :
            /\ position(k) = "intro" => assigned(k).type = "intro"
            /\ position(k) = "conclusion" => assigned(k).type = "conclusion"
            /\ position(k) = "body" => assigned(k).type \in {"h2", "h3"}
            /\ position(k) = "any" => assigned(k).type \notin {"h1", "faq"}
       /\ \A j, k \in spread : j # k => todo[j].blockId # todo[k].blockId
       /\ \A n \in DOMAIN internalLinks :
            (/\ internalLinks[n] = "body"
             /\ \A k \in DOMAIN todo : todo[k].linkIndex # n)
            => \A b \in DOMAIN linkBlocks :
                 linkBlocks[b].type \in {"h2", "h3"}
                 => \E k \in spread :
                      findIndex(linkBlocks, todo[k].blockId) = b

(***************************************************************************)
(* C33: at most one queue message of the job is waiting or active, and at  *)
(* most one invocation executes for the job, at any time.                  *)
(***************************************************************************)
C33_OneMessage ==
  /\ Cardinality({m \in DOMAIN msgs :
                    msgs[m].state \in {"waiting", "active"}}) <= 1
  /\ Cardinality({w \in Slots : inv[w].pc # "idle"}) <= 1

(***************************************************************************)
(* C34: from the end of STEP 3 on, every write of the block list of the    *)
(* record keeps the ids of the blocks, in their order.                     *)
(***************************************************************************)
C34_BlockListStable ==
  [][(bpc \notin {"structure", "enrich"} /\ articleBlocks' # articleBlocks)
     => ([k \in DOMAIN articleBlocks' |-> articleBlocks'[k].id]
         = [k \in DOMAIN articleBlocks |-> articleBlocks[k].id])]_vars

(***************************************************************************)
(* C35: no invocation starts a stage whose artifacts are persisted         *)
(* already: the SERP data with the average word count for stage 1, the     *)
(* result of the stage in the block list for the stages 2 to 7. So no      *)
(* stage runs to its end twice for the job.                                *)
(***************************************************************************)
C35_StagesOnce ==
  [][\A w \in Slots :
       LET stored(s) ==
             CASE s = 1 -> serp.averageWordCount
               [] s = 2 -> "structure" \in Range(blocks)
               [] s = 3 -> "enrich" \in Range(blocks)
               [] s = 4 -> "answers" \in Range(blocks)
               [] s = 5 -> "write" \in Range(blocks)
               [] s = 6 -> "links" \in Range(blocks)
               [] OTHER -> "review" \in Range(blocks)
       IN (Len(inv'[w].ran) > Len(inv[w].ran))
          => ~stored(Last(inv'[w].ran))]_vars

(***************************************************************************)
(* C36: whenever no message of the job is waiting or active, the persisted *)
(* status is a pause state, completed or failed.                           *)
(***************************************************************************)
C36_SettledStatus ==
  QueueDrained => status \in pausedStates \cup {COMPLETED, FAILED}

====
